---- MODULE Spec2Model ----
(***************************************************************************)
(* A model of the YAML / XML / JSON converter: the three parser classes    *)
(* (src/src/parsers) and the command line driver (src/src/main.py).        *)
(*                                                                         *)
(* Python values are records tagged by their type (field k):              *)
(*   str   [k |-> "str",  s |-> "abc"]                                      *)
(*   int   [k |-> "int",  n |-> 30]                                         *)
(*   bool  [k |-> "bool", b |-> TRUE]                                       *)
(*   None  [k |-> "none"]                                                   *)
(*   list  [k |-> "list", items |-> <<v1, ..., vn>>]                        *)
(*   dict  [k |-> "dict", ents |-> <<[key |-> "a", val |-> v], ...>>]       *)
(* A dict keeps its entries in insertion order, as Python's dict does.     *)
(***************************************************************************)
EXTENDS Integers, Sequences, FiniteSets, TLC

VARIABLES
    pc,       \* where the client of the parsers, or the driver, stands
    tree,     \* the value handed to save
    fmt,      \* the format of the parser in use
    file,     \* the content of the file save wrote ("text": tokens or a document)
    elem,     \* the ET.Element built from tree
    loaded,   \* what load, or _element_to_dict, returned
    err,      \* the exception that escaped, NoErr when none did
    args,     \* the command line: input_file, output_file, format
    fs,       \* the file system the driver finds
    calls,    \* the calls of parser methods the driver made, in order
    exitCode, \* the exit status of the process, -1 while it runs
    valid,    \* what validate returned
    stderr    \* the lines the driver printed on sys.stderr

cli == <<args, fs, calls, exitCode>>

vars == <<pc, tree, fmt, file, elem, loaded, err, args, fs, calls, exitCode, valid, stderr>>

(***************************************************************************)
(* Bounds of the model.                                                    *)
(***************************************************************************)
MaxDepth == 2
MaxLen == 3

(***************************************************************************)
(* Strings.  TLC gives Len, \o and SubSeq on strings; the rest of str's    *)
(* methods used by the code are computed from them, character by           *)
(* character.                                                              *)
(***************************************************************************)
CharAt(s, i) == SubSeq(s, i, i)

\* The characters of the model's strings, in code point order.
CodePoints == " #.0123456789@ABCDEFGHIJKLMNOPQRSTUVWXYZ_abcdefghijklmnopqrstuvwxyz~"

Ord(c) == CHOOSE i \in 1..Len(CodePoints) : CharAt(CodePoints, i) = c

\* Python's str < str: lexicographic by code point.
RECURSIVE StrLess(_, _)
StrLess(a, b) ==
    IF Len(b) = 0 THEN FALSE
    ELSE IF Len(a) = 0 THEN TRUE
    ELSE IF CharAt(a, 1) = CharAt(b, 1)
         THEN StrLess(SubSeq(a, 2, Len(a)), SubSeq(b, 2, Len(b)))
         ELSE Ord(CharAt(a, 1)) < Ord(CharAt(b, 1))

IsSpace(c) == c = " "

RECURSIVE LStrip(_)
LStrip(s) ==
    IF Len(s) > 0 /\ IsSpace(CharAt(s, 1)) THEN LStrip(SubSeq(s, 2, Len(s))) ELSE s

RECURSIVE RStrip(_)
RStrip(s) ==
    IF Len(s) > 0 /\ IsSpace(CharAt(s, Len(s)))
    THEN RStrip(SubSeq(s, 1, Len(s) - 1)) ELSE s

\* str.strip()
Strip(s) == RStrip(LStrip(s))

\* str.startswith(p)
StartsWith(s, p) == Len(s) >= Len(p) /\ SubSeq(s, 1, Len(p)) = p

Digits == "0123456789"

IsDigit(c) == \E i \in 1..10 : CharAt(Digits, i) = c

IsDigits(s) == Len(s) > 0 /\ \A i \in 1..Len(s) : IsDigit(CharAt(s, i))

DigitVal(c) == (CHOOSE i \in 1..10 : CharAt(Digits, i) = c) - 1

\* str(n) of a non-negative int, in decimal.
RECURSIVE IntToStr(_)
IntToStr(n) ==
    IF n < 10 THEN CharAt(Digits, n + 1)
    ELSE IntToStr(n \div 10) \o CharAt(Digits, (n % 10) + 1)

\* int(s) of a decimal numeral.
RECURSIVE StrToInt(_)
StrToInt(s) ==
    IF Len(s) = 1 THEN DigitVal(s)
    ELSE 10 * StrToInt(SubSeq(s, 1, Len(s) - 1)) + DigitVal(CharAt(s, Len(s)))

(***************************************************************************)
(* Python values.                                                          *)
(***************************************************************************)
StrV(s) == [k |-> "str", s |-> s]
IntV(n) == [k |-> "int", n |-> n]
BoolV(b) == [k |-> "bool", b |-> b]
NoneV == [k |-> "none"]
ListV(items) == [k |-> "list", items |-> items]
DictV(ents) == [k |-> "dict", ents |-> ents]
\* A datetime.date, which yaml.safe_load makes of a plain scalar such as
\* 2001-12-14; s is its ISO form, str(value).
DateV(s) == [k |-> "date", s |-> s]
Ent(key, val) == [key |-> key, val |-> val]

IsDict(v) == v.k = "dict"
IsList(v) == v.k = "list"
IsScalar(v) == v.k \in {"str", "int", "bool", "none", "date"}

\* key in d
HasKey(ents, key) == \E i \in 1..Len(ents) : ents[i].key = key

\* d[key]
Get(ents, key) == ents[CHOOSE i \in 1..Len(ents) : ents[i].key = key].val

\* d[key] = val: an existing key keeps its place, a new one goes last.
DictSet(ents, key, val) ==
    IF HasKey(ents, key)
    THEN [i \in 1..Len(ents) |->
            IF ents[i].key = key THEN Ent(key, val) ELSE ents[i]]
    ELSE Append(ents, Ent(key, val))

\* d.update(other)
RECURSIVE DictUpdate(_, _)
DictUpdate(ents, other) ==
    IF other = <<>> THEN ents
    ELSE DictUpdate(DictSet(ents, other[1].key, other[1].val), Tail(other))

\* sorted(d.items()), by insertion into the sorted prefix.
RECURSIVE InsertSorted(_, _)
InsertSorted(e, sorted) ==
    IF sorted = <<>> THEN <<e>>
    ELSE IF StrLess(e.key, sorted[1].key) THEN <<e>> \o sorted
    ELSE <<sorted[1]>> \o InsertSorted(e, Tail(sorted))

RECURSIVE SortItems(_)
SortItems(ents) ==
    IF ents = <<>> THEN <<>> ELSE InsertSorted(ents[1], SortItems(Tail(ents)))

(***************************************************************************)
(* JSON text, as the sequence of its tokens (white space and indentation   *)
(* carry no meaning and are left out).  json.dump writes it, json.load     *)
(* parses it.                                                              *)
(***************************************************************************)
Tok(t, s) == [t |-> t, s |-> s]
P(c) == Tok("p", c)

\* json.dump without sort_keys: the items in insertion order.
JsonItemsUnsorted(ents) == ents

\* json.dump(..., sort_keys=True): the items of a dict, in the order written.
JsonItems(ents) == SortItems(ents)

\* The JSON encoder's scalar forms: a str is quoted, the others are literals.
JsonScalar(v) ==
    CASE v.k = "str" -> Tok("string", v.s)
      [] v.k = "int" -> Tok("lit", IntToStr(v.n))
      [] v.k = "bool" -> Tok("lit", IF v.b THEN "true" ELSE "false")
      [] v.k = "none" -> Tok("lit", "null")

RECURSIVE JsonDump(_), JsonDumpItems(_), JsonDumpMembers(_)
JsonDump(v) ==
    CASE v.k = "list" -> <<P("[")>> \o JsonDumpItems(v.items) \o <<P("]")>>
      [] v.k = "dict" -> <<P("{")>> \o JsonDumpMembers(JsonItems(v.ents)) \o <<P("}")>>
      [] OTHER -> <<JsonScalar(v)>>

JsonDumpItems(items) ==
    IF items = <<>> THEN <<>>
    ELSE IF Len(items) = 1 THEN JsonDump(items[1])
    ELSE JsonDump(items[1]) \o <<P(",")>> \o JsonDumpItems(Tail(items))

JsonDumpMembers(ents) ==
    IF ents = <<>> THEN <<>>
    ELSE LET m == <<Tok("string", ents[1].key), P(":")>> \o JsonDump(ents[1].val)
         IN  IF Len(ents) = 1 THEN m
             ELSE m \o <<P(",")>> \o JsonDumpMembers(Tail(ents))

\* The JSON decoder's scalars.
JsonLiteral(tok) ==
    IF tok.t = "string" THEN StrV(tok.s)
    ELSE IF tok.s = "true" THEN BoolV(TRUE)
    ELSE IF tok.s = "false" THEN BoolV(FALSE)
    ELSE IF tok.s = "null" THEN NoneV
    ELSE IntV(StrToInt(tok.s))

\* json.load's recursive descent: the value that starts at token i, and the
\* index of the token after it.  An object's pairs are stored into a dict in
\* the order read.
RECURSIVE JsonParseValue(_, _), JsonParseItems(_, _, _), JsonParseMembers(_, _, _)
JsonParseValue(toks, i) ==
    IF toks[i] = P("[")
    THEN IF toks[i + 1] = P("]") THEN [v |-> ListV(<<>>), i |-> i + 2]
         ELSE JsonParseItems(toks, i + 1, <<>>)
    ELSE IF toks[i] = P("{")
    THEN IF toks[i + 1] = P("}") THEN [v |-> DictV(<<>>), i |-> i + 2]
         ELSE JsonParseMembers(toks, i + 1, <<>>)
    ELSE [v |-> JsonLiteral(toks[i]), i |-> i + 1]

JsonParseItems(toks, i, acc) ==
    LET r == JsonParseValue(toks, i)
        items == Append(acc, r.v)
    IN  IF toks[r.i] = P(",") THEN JsonParseItems(toks, r.i + 1, items)
        ELSE [v |-> ListV(items), i |-> r.i + 1]

JsonParseMembers(toks, i, acc) ==
    LET r == JsonParseValue(toks, i + 2)
        ents == DictSet(acc, toks[i].s, r.v)
    IN  IF toks[r.i] = P(",") THEN JsonParseMembers(toks, r.i + 1, ents)
        ELSE [v |-> DictV(ents), i |-> r.i + 1]

\* json.load(file)
JsonParse(toks) == JsonParseValue(toks, 1).v

\* A load that returns the decoded value as it is.
JSONLoadNoWrap(toks) == JsonParse(toks)

\* JSONParser.load on a readable file of valid JSON.
JSONLoad(toks) ==
    LET data == JsonParse(toks)
    IN  IF ~IsDict(data) THEN DictV(<<Ent("data", data)>>) ELSE data

\* JSONParser.save: the text written.
JSONSave(data) == JsonDump(data)

\* What json.dump has written to the file when it returns or raises: the
\* encoder yields "[" or the separator before each item, and the separator,
\* the key and ":" before each value, and raises TypeError at the first
\* value it has no encoding for (a date); ok tells whether it returned.
RECURSIVE JsonWrite(_), JsonWriteItems(_, _), JsonWriteMembers(_, _)
JsonWrite(v) ==
    CASE v.k = "date" -> [toks |-> <<>>, ok |-> FALSE]
      [] v.k = "list" ->
            LET w == JsonWriteItems(v.items, TRUE)
            IN  [toks |-> <<P("[")>> \o w.toks \o (IF w.ok THEN <<P("]")>> ELSE <<>>),
                 ok |-> w.ok]
      [] v.k = "dict" ->
            LET w == JsonWriteMembers(JsonItems(v.ents), TRUE)
            IN  [toks |-> <<P("{")>> \o w.toks \o (IF w.ok THEN <<P("}")>> ELSE <<>>),
                 ok |-> w.ok]
      [] OTHER -> [toks |-> <<JsonScalar(v)>>, ok |-> TRUE]

JsonWriteItems(items, first) ==
    IF items = <<>> THEN [toks |-> <<>>, ok |-> TRUE]
    ELSE LET sep == IF first THEN <<>> ELSE <<P(",")>>
             w == JsonWrite(items[1])
         IN  IF ~w.ok THEN [toks |-> sep \o w.toks, ok |-> FALSE]
             ELSE LET r == JsonWriteItems(Tail(items), FALSE)
                  IN  [toks |-> sep \o w.toks \o r.toks, ok |-> r.ok]

JsonWriteMembers(ents, first) ==
    IF ents = <<>> THEN [toks |-> <<>>, ok |-> TRUE]
    ELSE LET sep == IF first THEN <<>> ELSE <<P(",")>>
             head == sep \o <<Tok("string", ents[1].key), P(":")>>
             w == JsonWrite(ents[1].val)
         IN  IF ~w.ok THEN [toks |-> head \o w.toks, ok |-> FALSE]
             ELSE LET r == JsonWriteMembers(Tail(ents), FALSE)
                  IN  [toks |-> head \o w.toks \o r.toks, ok |-> r.ok]

(***************************************************************************)
(* YAML text, as the token stream of its block style: MAP ... END around   *)
(* KEY k VAL v pairs, SEQ ... END around "-" items, {} and [] for the      *)
(* empty collections, and scalars that are plain or quoted.                *)
(***************************************************************************)
Y(c) == Tok("y", c)

YamlTrue == {"yes", "Yes", "YES", "true", "True", "TRUE", "on", "On", "ON"}
YamlFalse == {"no", "No", "NO", "false", "False", "FALSE", "off", "Off", "OFF"}
YamlNull == {"~", "null", "Null", "NULL", ""}

\* The implicit resolver of safe_load on a plain scalar.
YamlResolve(s) ==
    IF s \in YamlTrue THEN BoolV(TRUE)
    ELSE IF s \in YamlFalse THEN BoolV(FALSE)
    ELSE IF s \in YamlNull THEN NoneV
    ELSE IF IsDigits(s) THEN IntV(StrToInt(s))
    ELSE StrV(s)

\* Characters a plain scalar cannot start with.
YamlIndicators == "#,[]{}&*!|>%@-?:"

\* Whether the emitter may write the str s plain: it must read back as a str.
YamlPlainOK(s) ==
    /\ s # ""
    /\ YamlResolve(s).k = "str"
    /\ ~IsSpace(CharAt(s, 1))
    /\ ~IsSpace(CharAt(s, Len(s)))
    /\ \A i \in 1..Len(YamlIndicators) : CharAt(YamlIndicators, i) # CharAt(s, 1)

\* An emitter that never quotes a str.
YamlStrAlwaysPlain(s) == Tok("plain", s)

\* The representer and emitter on a str.
YamlStr(s) == IF YamlPlainOK(s) THEN Tok("plain", s) ELSE Tok("quoted", s)

YamlScalar(v) ==
    CASE v.k = "str" -> YamlStr(v.s)
      [] v.k = "int" -> Tok("plain", IntToStr(v.n))
      [] v.k = "bool" -> Tok("plain", IF v.b THEN "true" ELSE "false")
      [] v.k = "none" -> Tok("plain", "null")
      [] v.k = "date" -> Tok("plain", v.s)

\* yaml.dump(..., sort_keys=True): the items of a dict, in the order written.
YamlItems(ents) == SortItems(ents)

RECURSIVE YamlDump(_), YamlDumpItems(_), YamlDumpPairs(_)
YamlDump(v) ==
    CASE v.k = "list" ->
            IF v.items = <<>> THEN <<Y("[]")>>
            ELSE <<Y("SEQ")>> \o YamlDumpItems(v.items) \o <<Y("END")>>
      [] v.k = "dict" ->
            IF v.ents = <<>> THEN <<Y("{}")>>
            ELSE <<Y("MAP")>> \o YamlDumpPairs(YamlItems(v.ents)) \o <<Y("END")>>
      [] OTHER -> <<YamlScalar(v)>>

YamlDumpItems(items) ==
    IF items = <<>> THEN <<>>
    ELSE <<Y("-")>> \o YamlDump(items[1]) \o YamlDumpItems(Tail(items))

YamlDumpPairs(ents) ==
    IF ents = <<>> THEN <<>>
    ELSE <<Y("KEY"), YamlStr(ents[1].key), Y("VAL")>> \o YamlDump(ents[1].val)
            \o YamlDumpPairs(Tail(ents))

\* The constructor on a scalar token.
YamlConstruct(tok) == IF tok.t = "quoted" THEN StrV(tok.s) ELSE YamlResolve(tok.s)

RECURSIVE YamlParseNode(_, _), YamlParseItems(_, _, _), YamlParsePairs(_, _, _)
YamlParseNode(toks, i) ==
    IF toks[i] = Y("[]") THEN [v |-> ListV(<<>>), i |-> i + 1]
    ELSE IF toks[i] = Y("{}") THEN [v |-> DictV(<<>>), i |-> i + 1]
    ELSE IF toks[i] = Y("SEQ") THEN YamlParseItems(toks, i + 1, <<>>)
    ELSE IF toks[i] = Y("MAP") THEN YamlParsePairs(toks, i + 1, <<>>)
    ELSE [v |-> YamlConstruct(toks[i]), i |-> i + 1]

YamlParseItems(toks, i, acc) ==
    IF toks[i] = Y("END") THEN [v |-> ListV(acc), i |-> i + 1]
    ELSE LET r == YamlParseNode(toks, i + 1)
         IN  YamlParseItems(toks, r.i, Append(acc, r.v))

\* A mapping's keys are the strings of the document model.
YamlParsePairs(toks, i, acc) ==
    IF toks[i] = Y("END") THEN [v |-> DictV(acc), i |-> i + 1]
    ELSE LET r == YamlParseNode(toks, i + 3)
         IN  YamlParsePairs(toks, r.i, DictSet(acc, toks[i + 1].s, r.v))

\* yaml.safe_load(file)
YamlParse(toks) == YamlParseNode(toks, 1).v

\* YAMLParser.load on a readable file of valid YAML.
YAMLLoad(toks) ==
    LET loaded_data == YamlParse(toks)
    IN  IF ~IsDict(loaded_data) THEN DictV(<<Ent("data", loaded_data)>>)
        ELSE loaded_data

\* YAMLParser.save: the text written.
YAMLSave(data) == YamlDump(data)

(***************************************************************************)
(* str(value) and repr(value).                                             *)
(***************************************************************************)
RECURSIVE PyRepr(_), PyReprItems(_), PyReprEnts(_)
PyRepr(v) ==
    CASE v.k = "str" -> "'" \o v.s \o "'"
      [] v.k = "int" -> IntToStr(v.n)
      [] v.k = "bool" -> IF v.b THEN "True" ELSE "False"
      [] v.k = "none" -> "None"
      [] v.k = "date" ->
            "datetime.date(" \o SubSeq(v.s, 1, 4)
               \o ", " \o IntToStr(StrToInt(SubSeq(v.s, 6, 7)))
               \o ", " \o IntToStr(StrToInt(SubSeq(v.s, 9, 10))) \o ")"
      [] v.k = "list" -> "[" \o PyReprItems(v.items) \o "]"
      [] v.k = "dict" -> "{" \o PyReprEnts(v.ents) \o "}"

PyReprItems(items) ==
    IF items = <<>> THEN ""
    ELSE IF Len(items) = 1 THEN PyRepr(items[1])
    ELSE PyRepr(items[1]) \o ", " \o PyReprItems(Tail(items))

PyReprEnts(ents) ==
    IF ents = <<>> THEN ""
    ELSE LET e == "'" \o ents[1].key \o "': " \o PyRepr(ents[1].val)
         IN  IF Len(ents) = 1 THEN e ELSE e \o ", " \o PyReprEnts(Tail(ents))

\* str(value)
PyStr(v) == IF v.k \in {"str", "date"} THEN v.s ELSE PyRepr(v)

(***************************************************************************)
(* XML.  An ET.Element is [tag, attrib, text, children]: attrib is the     *)
(* dict of its attributes (entries with str values), text its direct text  *)
(* ("" stands for both None and the empty string, which the code does not  *)
(* tell apart), children its child elements in document order.             *)
(***************************************************************************)
Elem(tag, attrib, text, children) ==
    [tag |-> tag, attrib |-> attrib, text |-> text, children |-> children]

\* Attributes entered under their bare names.
AttrEntriesBare(attrib) ==
    [i \in 1..Len(attrib) |-> Ent(attrib[i].key, StrV(attrib[i].val))]

\* The entries "@name": value of the attributes (lines 162-164).
AttrEntries(attrib) ==
    [i \in 1..Len(attrib) |-> Ent("@" \o attrib[i].key, StrV(attrib[i].val))]

\* A loop that puts a repeated child in front of the earlier ones.
AddChildInFront(children, tag, child_data) ==
    IF HasKey(children, tag)
    THEN LET cur == Get(children, tag)
             lst == IF ~IsList(cur) THEN <<cur>> ELSE cur.items
         IN  DictSet(children, tag, ListV(<<child_data>> \o lst))
    ELSE DictSet(children, tag, child_data)

\* A loop that keeps a list under every tag, also under one that occurs once.
AddChildAlwaysList(children, tag, child_data) ==
    IF HasKey(children, tag)
    THEN DictSet(children, tag, ListV(Append(Get(children, tag).items, child_data)))
    ELSE DictSet(children, tag, ListV(<<child_data>>))

\* A loop that wraps the value of a repeated tag in a new list every time.
AddChildNested(children, tag, child_data) ==
    IF HasKey(children, tag)
    THEN DictSet(children, tag, ListV(<<Get(children, tag), child_data>>))
    ELSE DictSet(children, tag, child_data)

\* children[child.tag] after one more child (lines 178-183).
AddChild(children, tag, child_data) ==
    IF HasKey(children, tag)
    THEN LET cur == Get(children, tag)
             lst == IF ~IsList(cur) THEN <<cur>> ELSE cur.items
         IN  DictSet(children, tag, ListV(Append(lst, child_data)))
    ELSE DictSet(children, tag, child_data)

\* A collapse that forgets the test for a list (line 189).
CollapsesLists(result, attrib) ==
    /\ Len(result) = 1
    /\ ~(\E i \in 1..Len(result) :
            StartsWith(result[i].key, "@") \/ result[i].key = "#text")
    /\ attrib = <<>>

\* A conversion that never returns the value of a one-entry result.
CollapsesNever(result, attrib) == FALSE

\* Whether the one-entry result is returned as its value (lines 186-189).
Collapses(result, attrib) ==
    /\ Len(result) = 1
    /\ ~(\E i \in 1..Len(result) :
            StartsWith(result[i].key, "@") \/ result[i].key = "#text")
    /\ attrib = <<>>
    /\ ~IsList(result[1].val)

\* A conversion that returns the result dict even when it is empty.
ResultEvenEmpty(result) == DictV(result)

\* result if result else None (line 192).
ResultOrNone(result) == IF result # <<>> THEN DictV(result) ELSE NoneV

RECURSIVE ElementToDict(_), ChildrenToDict(_, _)
\* XMLParser._element_to_dict
ElementToDict(element) ==
    LET attrs == AttrEntries(element.attrib)
        text == Strip(element.text)
        hasText == element.text # "" /\ text # ""
    IN  IF hasText /\ Len(element.children) = 0 /\ element.attrib = <<>>
        THEN StrV(text)
        ELSE LET withText == IF hasText THEN DictSet(attrs, "#text", StrV(text))
                             ELSE attrs
                 result == DictUpdate(withText, ChildrenToDict(element.children, <<>>))
             IN  IF Collapses(result, element.attrib) THEN result[1].val
                 ELSE ResultOrNone(result)

\* The loop over the child elements (lines 174-183).
ChildrenToDict(elements, children) ==
    IF elements = <<>> THEN children
    ELSE ChildrenToDict(Tail(elements),
                        AddChild(children, elements[1].tag, ElementToDict(elements[1])))

\* Items numbered from one.
ItemTagFromOne(name, i) == name \o IntToStr(i + 1)

\* f"item{i}": the tag of item i of enumerate(data) (lines 230-231).
ItemTag(name, i) == name \o IntToStr(i)

\* A loop that takes the entries by ascending key.
DictItemsSorted(data) == SortItems(data.ents)

\* data.items(): the entries in insertion order (line 211).
DictItems(data) == data.ents

RECURSIVE DictToElement(_, _), DictItemsToElement(_, _, _), ListToChildren(_, _, _)
\* XMLParser._dict_to_element
DictToElement(tag, data) ==
    IF IsDict(data)
    THEN DictItemsToElement(DictItems(data), Elem(tag, <<>>, "", <<>>), "")
    ELSE IF IsList(data)
    THEN Elem(tag, <<>>, "", ListToChildren("item", data.items, 0))
    ELSE Elem(tag, <<>>, PyStr(data), <<>>)

\* The loop over data.items() (lines 211-227); text_content "" is None or "".
DictItemsToElement(ents, element, text_content) ==
    IF ents = <<>>
    THEN IF text_content # "" THEN [element EXCEPT !.text = text_content] ELSE element
    ELSE LET key == ents[1].key
             value == ents[1].val
         IN  IF StartsWith(key, "@")
             THEN DictItemsToElement(Tail(ents),
                    [element EXCEPT !.attrib =
                        DictSet(@, SubSeq(key, 2, Len(key)), PyStr(value))],
                    text_content)
             ELSE IF key = "#text"
             THEN DictItemsToElement(Tail(ents), element, PyStr(value))
             ELSE IF IsList(value)
             THEN DictItemsToElement(Tail(ents),
                    [element EXCEPT !.children =
                        @ \o ListToChildren(key, value.items, -1)],
                    text_content)
             ELSE DictItemsToElement(Tail(ents),
                    [element EXCEPT !.children = Append(@, DictToElement(key, value))],
                    text_content)

\* One child per item: all tagged name when i < 0 (lines 219-221), tagged
\* name followed by the item's index, from i on, otherwise (lines 230-232).
ListToChildren(name, items, i) ==
    IF items = <<>> THEN <<>>
    ELSE IF i < 0
    THEN <<DictToElement(name, items[1])>> \o ListToChildren(name, Tail(items), i)
    ELSE <<DictToElement(ItemTag(name, i), items[1])>>
            \o ListToChildren(name, Tail(items), i + 1)

(***************************************************************************)
(* XML text, as the sequence of its tags and character data.  save writes  *)
(* ET.tostring's text re-indented by minidom's toprettyxml; ET.parse reads *)
(* it back.                                                                *)
(***************************************************************************)
XOpen(tag, attrib) == [t |-> "open", s |-> tag, a |-> attrib]
XText(s) == [t |-> "text", s |-> s, a |-> <<>>]
XClose(tag) == [t |-> "close", s |-> tag, a |-> <<>>]

NameStart == "ABCDEFGHIJKLMNOPQRSTUVWXYZ_abcdefghijklmnopqrstuvwxyz"
NameRest == "0123456789."

\* Whether name is an XML name: the parser rejects a document with any other
\* tag or attribute name.
XmlNameOK(name) ==
    /\ name # ""
    /\ \E j \in 1..Len(NameStart) : CharAt(NameStart, j) = CharAt(name, 1)
    /\ \A i \in 1..Len(name) :
          \/ \E j \in 1..Len(NameStart) : CharAt(NameStart, j) = CharAt(name, i)
          \/ \E j \in 1..Len(NameRest) : CharAt(NameRest, j) = CharAt(name, i)

RECURSIVE XmlWellFormed(_)
XmlWellFormed(element) ==
    /\ XmlNameOK(element.tag)
    /\ \A i \in 1..Len(element.attrib) : XmlNameOK(element.attrib[i].key)
    /\ \A i \in 1..Len(element.children) : XmlWellFormed(element.children[i])

\* The indentation toprettyxml puts around the nodes of an element that has
\* child elements (a line break and spaces: white space).
Indent == " "

RECURSIVE XmlWrite(_), XmlWriteAll(_)
\* ET.tostring, minidom.parseString, toprettyxml and the removal of blank
\* lines (lines 81-86): an element without child elements keeps its text as
\* it is, and none when it is empty.
XmlWrite(element) ==
    <<XOpen(element.tag, element.attrib)>>
    \o (IF element.children = <<>>
        THEN IF element.text = "" THEN <<>> ELSE <<XText(element.text)>>
        ELSE <<XText(Indent \o element.text \o Indent)>>)
    \o XmlWriteAll(element.children)
    \o <<XClose(element.tag)>>

XmlWriteAll(elements) ==
    IF elements = <<>> THEN <<>>
    ELSE XmlWrite(elements[1]) \o XmlWriteAll(Tail(elements))

RECURSIVE XmlParseElement(_, _), XmlParseChildren(_, _, _)
\* ET.parse: the element that starts at token i and the index after it.
XmlParseElement(toks, i) ==
    LET hasText == toks[i + 1].t = "text"
        r == XmlParseChildren(toks, IF hasText THEN i + 2 ELSE i + 1, <<>>)
    IN  [v |-> Elem(toks[i].s, toks[i].a, IF hasText THEN toks[i + 1].s ELSE "", r.v),
         i |-> r.i]

XmlParseChildren(toks, i, acc) ==
    IF toks[i].t = "close" THEN [v |-> acc, i |-> i + 1]
    ELSE LET r == XmlParseElement(toks, i)
         IN  XmlParseChildren(toks, r.i, Append(acc, r.v))

\* ET.parse(file_path).getroot()
XmlParse(toks) == XmlParseElement(toks, 1).v

\* XMLParser.load on a readable file of well-formed XML (lines 34-41).
XMLLoad(toks) ==
    LET root == XmlParse(toks)
        data == ElementToDict(root)
    IN  IF root.tag # "" THEN DictV(<<Ent(root.tag, data)>>)
        ELSE IF IsDict(data) THEN data ELSE DictV(<<Ent("data", data)>>)

\* A save that wraps every value in a "root" element.
XMLRootAlwaysRoot(data) ==
    IF IsDict(data) THEN DictToElement("root", data)
    ELSE DictToElement("root", DictV(<<Ent("data", data)>>))

\* The root element XMLParser.save builds (lines 68-79).
XMLRoot(data) ==
    IF IsDict(data)
    THEN IF Len(data.ents) = 1
         THEN DictToElement(data.ents[1].key, data.ents[1].val)
         ELSE DictToElement("root", data)
    ELSE DictToElement("root", DictV(<<Ent("data", data)>>))

\* Whether XMLParser.save raises: minidom.parseString rejects the text of an
\* element tree with a tag or attribute name that is no XML name, and the
\* handler on line 93 turns that into a ValueError before the file is opened.
XMLSaveFails(data) == ~XmlWellFormed(XMLRoot(data))

\* XMLParser.save: the text written.
XMLSave(data) == XmlWrite(XMLRoot(data))

(***************************************************************************)
(* The driver (src/src/main.py): pathlib's suffix, str.lower and the       *)
(* format table of detect_input_format.                                    *)
(***************************************************************************)
UpperCase == "ABCDEFGHIJKLMNOPQRSTUVWXYZ"
LowerCase == "abcdefghijklmnopqrstuvwxyz"

LowerChar(c) ==
    IF \E i \in 1..Len(UpperCase) : CharAt(UpperCase, i) = c
    THEN CharAt(LowerCase, CHOOSE i \in 1..Len(UpperCase) : CharAt(UpperCase, i) = c)
    ELSE c

\* A lower() that leaves the string as it is.
LowerKeepsCase(s) == s

\* str.lower()
RECURSIVE Lower(_)
Lower(s) ==
    IF Len(s) = 0 THEN ""
    ELSE LowerChar(CharAt(s, 1)) \o Lower(SubSeq(s, 2, Len(s)))

\* str.rfind(c), counted from 1: 0 when c is not in s.
RECURSIVE RFind(_, _)
RFind(s, c) ==
    IF Len(s) = 0 THEN 0
    ELSE IF CharAt(s, Len(s)) = c THEN Len(s)
    ELSE RFind(SubSeq(s, 1, Len(s) - 1), c)

\* PurePath.name: the last component of the path.
Name(path) == SubSeq(path, RFind(path, "/") + 1, Len(path))

\* PurePath.suffix: the name from its last dot on, unless that dot is the
\* first or the last character of the name.
Suffix(path) ==
    LET name == Name(path)
        i == RFind(name, ".")
    IN  IF 1 < i /\ i < Len(name) THEN SubSeq(name, i, Len(name)) ELSE ""

\* format_map (lines 24-29)
FormatMap ==
    << Ent(".json", "json"), Ent(".yaml", "yaml"),
       Ent(".yml", "yaml"), Ent(".xml", "xml") >>

\* detect_input_format
DetectInputFormat(file_path) ==
    LET extension == Lower(Suffix(file_path))
    IN  IF HasKey(FormatMap, extension) THEN Get(FormatMap, extension) ELSE "unknown"

\* A test of the detected format that lets every format through.
NeverUnsupported(input_format) == FALSE

\* The test of process_conversion for an input it cannot read (line 36).
IsUnsupported(input_format) == input_format = "unknown"

\* The load of the parser chosen for input_format (lines 41-52).
ParserLoad(input_format, text) ==
    CASE input_format = "json" -> JSONLoad(text)
      [] input_format = "yaml" -> YAMLLoad(text)
      [] input_format = "xml" -> XMLLoad(text)

\* The text the parser chosen for output_format writes (lines 56-67).
ParserSave(output_format, data) ==
    CASE output_format = "json" -> JSONSave(data)
      [] output_format = "yaml" -> YAMLSave(data)
      [] output_format = "xml" -> XMLSave(data)

\* The names the messages give the formats: input_format.upper().
FormatUpper(format) ==
    CASE format = "json" -> "JSON"
      [] format = "yaml" -> "YAML"
      [] format = "xml" -> "XML"
      [] OTHER -> "UNKNOWN"

Call(parser, op) == [parser |-> parser, op |-> op]

\* A driver that takes the output format from the extension of the output
\* path when that names a format.
OutputFormatFromPath(a) ==
    LET f == DetectInputFormat(a.output_file)
    IN  IF f \in {"json", "yaml", "xml"} THEN f ELSE a.format

\* The output format process_conversion is given: args.format (main, line 90).
OutputFormat(a) == a.format

(***************************************************************************)
(* The values, files and errors of the state.                              *)
(***************************************************************************)
NoValue == [k |-> "unset"]
NoFile == [kind |-> "absent", text |-> <<>>]
NoElement == Elem("", <<>>, "", <<>>)
NoErr == [type |-> "none", msg |-> ""]
NoArgs == [input_file |-> "", output_file |-> "", format |-> ""]
NoFS == [input |-> "absent", readable |-> FALSE, wellformed |-> FALSE,
         doc |-> NoValue, outdir |-> "ok"]
Error(type, msg) == [type |-> type, msg |-> msg]
File(kind, text) == [kind |-> kind, text |-> text]

(***************************************************************************)
(* The trees handed to save: every scalar of Scalars, and lists and dicts  *)
(* nested at most MaxDepth deep.  A list has at most MaxLen items; a dict  *)
(* has its keys in one of the orders of KeyOrders.  The first entry of a   *)
(* list or dict is any tree one level less deep, the others are Fill.      *)
(***************************************************************************)
Fill == StrV("y")
Scalars == {StrV("x"), StrV("5"), StrV(" x"), StrV(""), IntV(30), BoolV(TRUE), NoneV}
KeyOrders ==
    { <<"a">>, <<"@i">>, <<"#text">>, <<"1">>,
      <<"b", "a">>, <<"a", "b">>, <<"a", "@i">>, <<"@i", "a">>,
      <<"#text", "a">>, <<"a", "#text">>, <<"@i", "#text">> }
Tags == {"t"}

RECURSIVE Nodes(_)
Nodes(d) ==
    IF d = 0 THEN Scalars
    ELSE LET sub == Nodes(d - 1)
         IN  Scalars \cup {ListV(<<>>), DictV(<<>>)}
             \cup {ListV([i \in 1..n |-> IF i = 1 THEN h ELSE Fill]) :
                        h \in sub, n \in 1..MaxLen}
             \cup {DictV([i \in 1..Len(ks) |-> Ent(ks[i], IF i = 1 THEN h ELSE Fill)]) :
                        h \in sub, ks \in KeyOrders}

Trees == Nodes(MaxDepth)

(***************************************************************************)
(* load and validate of the three parsers on a path: what open and the     *)
(* decoder raise inside load's try block, and what the except clauses make *)
(* of it.                                                                  *)
(***************************************************************************)
\* The decoder's own exception: json.JSONDecodeError, yaml.YAMLError,
\* ET.ParseError.
DecodeError(parser) ==
    CASE parser = "json" -> "JSONDecodeError"
      [] parser = "yaml" -> "YAMLError"
      [] parser = "xml" -> "ParseError"

\* The exception raised inside the try block of load, "none" when the file
\* is opened, read and decoded.  f.opendir is what the platform's open
\* raises on a directory.  ET.parse reads bytes, so bytes that are not
\* UTF-8 are a ParseError there and a UnicodeDecodeError in the others.
RaisedInLoad(parser, f) ==
    IF f.input = "absent" THEN "FileNotFoundError"
    ELSE IF f.input = "notdir" THEN "NotADirectoryError"
    ELSE IF f.input = "dir" THEN f.opendir
    ELSE IF ~f.readable THEN "PermissionError"
    ELSE IF f.input = "undecodable"
    THEN IF parser = "xml" THEN DecodeError(parser) ELSE "UnicodeDecodeError"
    ELSE IF ~f.wellformed THEN DecodeError(parser)
    ELSE "none"

\* Except clauses without the last one: any other exception goes on as it is.
LoadErrorUnhandled(parser, raised) ==
    IF raised = "FileNotFoundError"
    THEN Error("FileNotFoundError", FormatUpper(parser) \o " file not found")
    ELSE IF raised = DecodeError(parser)
    THEN Error("ValueError", "Invalid " \o FormatUpper(parser) \o " format")
    ELSE IF raised = "PermissionError"
    THEN Error("PermissionError", "No permission to read file")
    ELSE Error(raised, "")

\* The except clauses of load, in their order.
LoadError(parser, raised) ==
    IF raised = "FileNotFoundError"
    THEN Error("FileNotFoundError", FormatUpper(parser) \o " file not found")
    ELSE IF raised = DecodeError(parser)
    THEN Error("ValueError", "Invalid " \o FormatUpper(parser) \o " format")
    ELSE IF raised = "PermissionError"
    THEN Error("PermissionError", "No permission to read file")
    ELSE Error("ValueError", "Error reading " \o FormatUpper(parser) \o " file")

\* A validate that catches ValueError alone.
ValidateCatchesValueError == {"ValueError"}

\* The exceptions validate catches.
ValidateCatches == {"ValueError", "FileNotFoundError", "PermissionError"}

(***************************************************************************)
(* The XML documents handed to load.  An element without children has one  *)
(* of Heads (attributes and direct text); an element with children has one *)
(* of Shapes, a head over the tags of its children.  One child, the first  *)
(* tagged "a" or else the first, is any element one level less deep, the   *)
(* others are leaves whose text is their position.  Elements nest at most  *)
(* MaxDepth deep.                                                          *)
(***************************************************************************)
Heading(attrib, text) == [attrib |-> attrib, text |-> text]

Bare == Heading(<<>>, "")
Spaced == Heading(<<>>, " ")
Texted == Heading(<<>>, "5")
Padded == Heading(<<>>, " x ")
Flagged == Heading(<<Ent("i", "y")>>, "")
Priced == Heading(<<Ent("i", "y")>>, " x ")
Attributed == Heading(<<Ent("i", " v"), Ent("j", "")>>, "")

Heads == {Bare, Spaced, Texted, Padded, Flagged, Priced, Attributed}

Shapes ==
    { <<Bare, <<"b">> >>, <<Spaced, <<"b">> >>, <<Texted, <<"b">> >>,
      <<Priced, <<"b">> >>, <<Attributed, <<"b">> >>,
      <<Bare, <<"a", "a">> >>, <<Texted, <<"a", "a">> >>,
      <<Bare, <<"a", "b">> >>, <<Spaced, <<"a", "b">> >>,
      <<Bare, <<"b", "a", "b">> >>, <<Priced, <<"b", "a", "b">> >>,
      <<Bare, <<"a", "a", "a">> >>, <<Attributed, <<"a", "a", "a">> >> }

Leaf(tag, i) == Elem(tag, <<>>, IntToStr(i), <<>>)

DeepChild(tags) ==
    IF \E i \in 1..Len(tags) : tags[i] = "a"
    THEN CHOOSE i \in 1..Len(tags) :
            tags[i] = "a" /\ \A j \in 1..(i - 1) : tags[j] # "a"
    ELSE 1

RECURSIVE ElementsOf(_, _)
ElementsOf(tag, d) ==
    {Elem(tag, h.attrib, h.text, <<>>) : h \in Heads}
    \cup (IF d = 0 THEN {}
          ELSE UNION {
                 {Elem(tag, sh[1].attrib, sh[1].text,
                       [i \in 1..Len(sh[2]) |->
                            IF i = DeepChild(sh[2]) THEN c ELSE Leaf(sh[2][i], i)]) :
                      c \in ElementsOf(sh[2][DeepChild(sh[2])], d - 1)} :
                 sh \in Shapes })

Documents == ElementsOf("a", MaxDepth)

(***************************************************************************)
(* The command lines and file systems given to the driver.  A path is a    *)
(* directory, a stem and an extension; argparse admits the three formats.  *)
(* The input is absent, a directory, or a file that is unreadable,         *)
(* malformed, or the text of doc in the format of its extension.           *)
(***************************************************************************)
Dirs == {"", "D/", "d.xml/"}
Stems == {"file", ".hidden", "a.xml"}
Exts ==
    { ".json", ".JSON", ".Json", ".yaml", ".YAML", ".yml", ".Yml", ".xml", ".XML",
      ".xmL", ".txt", ".jsonx", ".js", ".", "" }

\* A stem that ends in an extension of its own is not used without one.
InputPaths ==
    { [path |-> d \o s \o e, ext |-> e] :
        d \in Dirs, s \in Stems \ {"a.xml"}, e \in Exts }
    \cup { [path |-> d \o "a.xml" \o e, ext |-> e] :
        d \in Dirs, e \in Exts \ {".", ""} }

Formats == {"json", "yaml", "xml"}

\* Output paths, with and without an extension that names a format.
OutputPaths == {"out", "out.json", "out.xml"}

CliTrees ==
    { DictV(<<Ent("a", StrV("x"))>>),
      DictV(<<Ent("b", IntV(30)), Ent("a", ListV(<<StrV("x"), StrV("y")>>))>>),
      DictV(<<Ent("1", StrV("x"))>>),
      ListV(<<StrV("x")>>) }

InputStates ==
    { [input |-> "absent", readable |-> FALSE, wellformed |-> FALSE, doc |-> NoValue],
      [input |-> "dir", readable |-> FALSE, wellformed |-> FALSE, doc |-> NoValue],
      [input |-> "file", readable |-> FALSE, wellformed |-> TRUE, doc |-> NoValue],
      [input |-> "file", readable |-> TRUE, wellformed |-> FALSE, doc |-> NoValue] }
    \cup { [input |-> "file", readable |-> TRUE, wellformed |-> TRUE, doc |-> t] :
              t \in CliTrees }

OutDirs == {"ok", "nomkdir", "nowrite"}

FileSystems ==
    { [input |-> i.input, readable |-> i.readable, wellformed |-> i.wellformed,
       doc |-> i.doc, outdir |-> o] : i \in InputStates, o \in OutDirs }

\* The text of the input file: doc as the parser of its format writes it.
InputText(input_format) == ParserSave(input_format, fs.doc)

(***************************************************************************)
(* A client of the parsers: it saves tree with one of the parsers and      *)
(* loads the file back, or converts tree to an elem and back.           *)
(***************************************************************************)
Init ==
    /\ pc = "start"
    /\ tree \in Trees
    /\ fmt = "none"
    /\ file = NoFile
    /\ elem = NoElement
    /\ loaded = NoValue
    /\ err = NoErr
    /\ args = NoArgs
    /\ fs = NoFS
    /\ calls = <<>>
    /\ exitCode = -1
    /\ valid = NoValue
    /\ stderr = <<>>

SaveJSON ==
    /\ pc = "start"
    /\ file' = File("json", JSONSave(tree))
    /\ fmt' = "json"
    /\ pc' = "saved"
    /\ UNCHANGED <<tree, elem, loaded, err, cli>>
    /\ UNCHANGED valid
    /\ UNCHANGED stderr

LoadJSON ==
    /\ pc = "saved" /\ fmt = "json"
    /\ loaded' = JSONLoad(file.text)
    /\ pc' = "loaded"
    /\ UNCHANGED <<tree, fmt, file, elem, err, cli>>
    /\ UNCHANGED valid
    /\ UNCHANGED stderr

SaveYAML ==
    /\ pc = "start"
    /\ file' = File("yaml", YAMLSave(tree))
    /\ fmt' = "yaml"
    /\ pc' = "saved"
    /\ UNCHANGED <<tree, elem, loaded, err, cli>>
    /\ UNCHANGED valid
    /\ UNCHANGED stderr

LoadYAML ==
    /\ pc = "saved" /\ fmt = "yaml"
    /\ loaded' = YAMLLoad(file.text)
    /\ pc' = "loaded"
    /\ UNCHANGED <<tree, fmt, file, elem, err, cli>>
    /\ UNCHANGED valid
    /\ UNCHANGED stderr

SaveXML ==
    /\ pc = "start"
    /\ fmt' = "xml"
    /\ IF XMLSaveFails(tree)
       THEN /\ err' = Error("ValueError", "Error writing XML file")
            /\ pc' = "failed"
            /\ UNCHANGED file
       ELSE /\ file' = File("xml", XMLSave(tree))
            /\ pc' = "saved"
            /\ UNCHANGED err
    /\ UNCHANGED <<tree, elem, loaded, cli>>
    /\ UNCHANGED valid
    /\ UNCHANGED stderr

LoadXML ==
    /\ pc = "saved" /\ fmt = "xml"
    /\ loaded' = XMLLoad(file.text)
    /\ pc' = "loaded"
    /\ UNCHANGED <<tree, fmt, file, elem, err, cli>>
    /\ UNCHANGED valid
    /\ UNCHANGED stderr

ToElement ==
    /\ pc = "start"
    /\ \E tag \in Tags : elem' = DictToElement(tag, tree)
    /\ pc' = "elem"
    /\ UNCHANGED <<tree, fmt, file, loaded, err, cli>>
    /\ UNCHANGED valid
    /\ UNCHANGED stderr

ToNode ==
    /\ pc = "elem"
    /\ loaded' = ElementToDict(elem)
    /\ pc' = "node"
    /\ UNCHANGED <<tree, fmt, file, elem, err, cli>>
    /\ UNCHANGED valid
    /\ UNCHANGED stderr

Next ==
    \/ SaveJSON \/ LoadJSON
    \/ SaveYAML \/ LoadYAML
    \/ SaveXML \/ LoadXML
    \/ ToElement \/ ToNode

Spec == Init /\ [][Next]_vars

(***************************************************************************)
(* A client of the XML parser: it loads a document, saves what it loaded   *)
(* and loads that file again.  elem keeps the root element of the          *)
(* document, tree what the first load returned.                            *)
(***************************************************************************)
\* ET.tostring (line 81): the element as text, nothing added between nodes.
RECURSIVE XmlToString(_), XmlToStringAll(_)
XmlToString(element) ==
    <<XOpen(element.tag, element.attrib)>>
    \o (IF element.text = "" THEN <<>> ELSE <<XText(element.text)>>)
    \o XmlToStringAll(element.children)
    \o <<XClose(element.tag)>>

XmlToStringAll(elements) ==
    IF elements = <<>> THEN <<>>
    ELSE XmlToString(elements[1]) \o XmlToStringAll(Tail(elements))

InitXml ==
    /\ pc = "document"
    /\ \E root \in Documents : file = File("xml", XmlToString(root))
    /\ fmt = "xml"
    /\ tree = NoValue
    /\ elem = NoElement
    /\ loaded = NoValue
    /\ err = NoErr
    /\ args = NoArgs
    /\ fs = NoFS
    /\ calls = <<>>
    /\ exitCode = -1
    /\ valid = NoValue
    /\ stderr = <<>>

LoadDocument ==
    /\ pc = "document"
    /\ elem' = XmlParse(file.text)
    /\ loaded' = XMLLoad(file.text)
    /\ pc' = "read"
    /\ UNCHANGED <<tree, fmt, file, err, cli>>
    /\ UNCHANGED valid
    /\ UNCHANGED stderr

SaveLoaded ==
    /\ pc = "read"
    /\ tree' = loaded
    /\ IF XMLSaveFails(loaded)
       THEN /\ err' = Error("ValueError", "Error writing XML file")
            /\ pc' = "failed"
            /\ UNCHANGED file
       ELSE /\ file' = File("xml", XMLSave(loaded))
            /\ pc' = "rewritten"
            /\ UNCHANGED err
    /\ UNCHANGED <<fmt, elem, loaded, cli>>
    /\ UNCHANGED valid
    /\ UNCHANGED stderr

LoadAgain ==
    /\ pc = "rewritten"
    /\ loaded' = XMLLoad(file.text)
    /\ pc' = "reread"
    /\ UNCHANGED <<tree, fmt, file, elem, err, cli>>
    /\ UNCHANGED valid
    /\ UNCHANGED stderr

NextXml == LoadDocument \/ SaveLoaded \/ LoadAgain

SpecXml == InitXml /\ [][NextXml]_vars

(***************************************************************************)
(* The driver: main validates the paths, process_conversion detects the    *)
(* input format, loads the input and saves the output; a FileNotFoundError,*)
(* ValueError or PermissionError ends the process with status 1.  file is  *)
(* the output file.                                                        *)
(***************************************************************************)
InitCLI ==
    /\ pc = "main"
    /\ \E p \in InputPaths, o \in OutputPaths, f \in Formats :
          args = [input_file |-> p.path, output_file |-> o, format |-> f]
    /\ fs \in FileSystems
    /\ (fs.doc # NoValue /\ DetectInputFormat(args.input_file) = "xml")
          => ~XMLSaveFails(fs.doc)
    /\ tree = NoValue
    /\ fmt = "none"
    /\ file = NoFile
    /\ elem = NoElement
    /\ loaded = NoValue
    /\ err = NoErr
    /\ calls = <<>>
    /\ exitCode = -1
    /\ valid = NoValue
    /\ stderr = <<>>

\* validate_files (lines 8-19)
ValidateFiles ==
    /\ pc = "main"
    /\ IF fs.input = "absent"
       THEN /\ err' = Error("FileNotFoundError", "Input file does not exist")
            /\ pc' = "except"
       ELSE IF fs.input # "file"
       THEN /\ err' = Error("ValueError", "Input path is not a file")
            /\ pc' = "except"
       ELSE IF fs.outdir = "nomkdir"
       THEN /\ err' = Error("PermissionError", "No write permission for")
            /\ pc' = "except"
       ELSE /\ pc' = "convert"
            /\ UNCHANGED err
    /\ UNCHANGED <<tree, fmt, file, elem, loaded, cli>>
    /\ UNCHANGED valid
    /\ UNCHANGED stderr

\* process_conversion, lines 34-40
DetectFormat ==
    /\ pc = "convert"
    /\ fmt' = DetectInputFormat(args.input_file)
    /\ IF IsUnsupported(fmt')
       THEN /\ err' = Error("ValueError", "Unsupported input file format")
            /\ pc' = "except"
       ELSE /\ pc' = "load"
            /\ UNCHANGED err
    /\ UNCHANGED <<tree, file, elem, loaded, cli>>
    /\ UNCHANGED valid
    /\ UNCHANGED stderr

\* What the parser's load raises on the input file: NoErr when it returns.
LoadRaises(input_format) ==
    IF ~fs.readable THEN Error("PermissionError", "No permission to read file")
    ELSE IF ~fs.wellformed
    THEN Error("ValueError", "Invalid " \o FormatUpper(input_format) \o " format")
    ELSE NoErr

\* What the parser's save raises: NoErr when it writes the file.  XMLParser
\* builds and re-parses the text before it opens the file (xml_parser.py
\* lines 80-88), the others fail on open alone.
SaveRaises(output_format, data) ==
    IF output_format = "xml" /\ XMLSaveFails(data)
    THEN Error("ValueError", "Error writing XML file")
    ELSE IF fs.outdir = "nowrite"
    THEN Error("PermissionError", "No permission to write file")
    ELSE NoErr

\* except Exception as e: raise ValueError(...) (lines 71-72).
ConversionError(e) == Error("ValueError", "Error processing conversion: " \o e.msg)

\* process_conversion, lines 41-54
LoadInput ==
    /\ pc = "load"
    /\ IF fmt \notin Formats
       THEN /\ err' = Error("ValueError", "TODO: input not yet implemented")
            /\ pc' = "except"
            /\ UNCHANGED <<loaded, calls>>
       ELSE /\ calls' = Append(calls, Call(fmt, "load"))
            /\ IF LoadRaises(fmt) # NoErr
               THEN /\ err' = LoadRaises(fmt)
                    /\ pc' = "except"
                    /\ UNCHANGED loaded
               ELSE /\ loaded' = ParserLoad(fmt, InputText(fmt))
                    /\ pc' = "save"
                    /\ UNCHANGED err
    /\ UNCHANGED <<tree, fmt, file, elem, args, fs, exitCode>>
    /\ UNCHANGED valid
    /\ UNCHANGED stderr

\* process_conversion, lines 55-72: whatever save raises is raised again as
\* a ValueError.
SaveOutput ==
    /\ pc = "save"
    /\ calls' = Append(calls, Call(OutputFormat(args), "save"))
    /\ IF SaveRaises(OutputFormat(args), loaded) # NoErr
       THEN /\ err' = ConversionError(SaveRaises(OutputFormat(args), loaded))
            /\ pc' = "except"
            /\ UNCHANGED file
       ELSE /\ file' = File(OutputFormat(args), ParserSave(OutputFormat(args), loaded))
            /\ pc' = "done"
            /\ UNCHANGED err
    /\ UNCHANGED <<tree, fmt, elem, loaded, args, fs, exitCode>>
    /\ UNCHANGED valid
    /\ UNCHANGED stderr

\* A driver that ends with status 0 whatever happened.
ExitStatusAlwaysZero(raised) == 0

\* The exit status: sys.exit(1) in the except clause (line 93), 0 when main
\* returns.
ExitStatus(raised) == IF raised THEN 1 ELSE 0

\* main, lines 91-93
ExitOnError ==
    /\ pc = "except"
    /\ stderr' = Append(stderr, "Error: " \o err.msg)
    /\ exitCode' = ExitStatus(TRUE)
    /\ pc' = "exited"
    /\ UNCHANGED <<tree, fmt, file, elem, loaded, err, args, fs, calls>>
    /\ UNCHANGED valid

\* main returns: the interpreter ends with status 0.
ExitNormally ==
    /\ pc = "done"
    /\ exitCode' = ExitStatus(FALSE)
    /\ pc' = "exited"
    /\ UNCHANGED <<tree, fmt, file, elem, loaded, err, args, fs, calls>>
    /\ UNCHANGED valid
    /\ UNCHANGED stderr

NextCLI ==
    \/ ValidateFiles \/ DetectFormat \/ LoadInput \/ SaveOutput
    \/ ExitOnError \/ ExitNormally

SpecCLI == InitCLI /\ [][NextCLI]_vars

(***************************************************************************)
(* A caller of detect_input_format alone, on any path and file system.     *)
(***************************************************************************)
InitDetect ==
    /\ pc = "detect"
    /\ \E p \in InputPaths, f \in Formats :
          args = [input_file |-> p.path, output_file |-> "out", format |-> f]
    /\ fs \in FileSystems
    /\ tree = NoValue
    /\ fmt = "none"
    /\ file = NoFile
    /\ elem = NoElement
    /\ loaded = NoValue
    /\ err = NoErr
    /\ calls = <<>>
    /\ exitCode = -1
    /\ valid = NoValue
    /\ stderr = <<>>

Detect ==
    /\ pc = "detect"
    /\ fmt' = DetectInputFormat(args.input_file)
    /\ pc' = "detected"
    /\ UNCHANGED <<tree, file, elem, loaded, err, cli>>
    /\ UNCHANGED valid
    /\ UNCHANGED stderr

NextDetect == Detect

SpecDetect == InitDetect /\ [][NextDetect]_vars

(***************************************************************************)
(* A client of one parser: it calls load on a path, then validate on the   *)
(* same path.  The path is absent, below a regular file, a directory, or a *)
(* file that is unreadable, not UTF-8, malformed, or the text of doc.      *)
(***************************************************************************)
OpenDirErrors == {"IsADirectoryError", "PermissionError"}

LoadFile(input, readable, wellformed, doc, opendir) ==
    [input |-> input, readable |-> readable, wellformed |-> wellformed,
     doc |-> doc, outdir |-> "ok", opendir |-> opendir]

LoadFileSystems ==
    { LoadFile("absent", FALSE, FALSE, NoValue, "IsADirectoryError"),
      LoadFile("notdir", FALSE, FALSE, NoValue, "IsADirectoryError"),
      LoadFile("file", FALSE, TRUE, NoValue, "IsADirectoryError"),
      LoadFile("file", TRUE, FALSE, NoValue, "IsADirectoryError"),
      LoadFile("undecodable", TRUE, FALSE, NoValue, "IsADirectoryError") }
    \cup { LoadFile("dir", FALSE, FALSE, NoValue, e) : e \in OpenDirErrors }
    \cup { LoadFile("file", TRUE, TRUE, t, "IsADirectoryError") : t \in Trees }

InitLoad ==
    /\ pc = "path"
    /\ fmt \in Formats
    /\ fs \in LoadFileSystems
    /\ (fs.doc # NoValue /\ fmt = "xml") => ~XMLSaveFails(fs.doc)
    /\ tree = NoValue
    /\ file = NoFile
    /\ elem = NoElement
    /\ loaded = NoValue
    /\ err = NoErr
    /\ args = NoArgs
    /\ calls = <<>>
    /\ exitCode = -1
    /\ valid = NoValue
    /\ stderr = <<>>

\* JSONParser.load, YAMLParser.load, XMLParser.load
Load ==
    /\ pc = "path"
    /\ calls' = Append(calls, Call(fmt, "load"))
    /\ LET raised == RaisedInLoad(fmt, fs)
       IN  IF raised = "none"
           THEN /\ loaded' = ParserLoad(fmt, InputText(fmt))
                /\ pc' = "loaded"
                /\ UNCHANGED err
           ELSE /\ err' = LoadError(fmt, raised)
                /\ pc' = "raised"
                /\ UNCHANGED loaded
    /\ UNCHANGED <<tree, fmt, file, elem, args, fs, exitCode, valid>>
    /\ UNCHANGED stderr

\* JSONParser.validate, YAMLParser.validate, XMLParser.validate: load in a
\* try block; an exception that is not caught leaves validate.
Validate ==
    /\ pc \in {"loaded", "raised"}
    /\ calls' = Append(calls, Call(fmt, "validate"))
    /\ LET raised == RaisedInLoad(fmt, fs)
       IN  IF raised = "none"
           THEN /\ valid' = BoolV(TRUE)
                /\ pc' = "validated"
           ELSE IF LoadError(fmt, raised).type \in ValidateCatches
           THEN /\ valid' = BoolV(FALSE)
                /\ pc' = "validated"
           ELSE /\ pc' = "escaped"
                /\ UNCHANGED valid
    /\ UNCHANGED <<tree, fmt, file, elem, loaded, err, args, fs, exitCode>>
    /\ UNCHANGED stderr

NextLoad == Load \/ Validate

SpecLoad == InitLoad /\ [][NextLoad]_vars

(***************************************************************************)
(* The save half of a conversion, step by step: the tree that load         *)
(* returned is handed to the parser of --format, which makes the parent    *)
(* directory, opens the output file for writing and writes the text; an    *)
(* exception leaves the try block of process_conversion as a ValueError.   *)
(* fs tells whether the parent directory is present, missing or cannot be  *)
(* made, and whether the file may be opened for writing; file is the       *)
(* output file.                                                            *)
(***************************************************************************)
\* The output file of an earlier run.
OldFile == File("json", JSONSave(DictV(<<Ent("old", StrV("x"))>>)))

Day == DateV("2001-12-14")

\* Trees that yaml.safe_load returns for documents with a date in them.
DatedTrees ==
    { DictV(<<Ent("d", Day)>>),
      DictV(<<Ent("d", Day), Ent("a", StrV("x"))>>),
      DictV(<<Ent("a", ListV(<<StrV("x"), Day>>))>>),
      DictV(<<Ent("data", Day)>>) }

SaveTrees == CliTrees \cup DatedTrees

OutputStates ==
    { [parent |-> d, writable |-> w] :
        d \in {"present", "missing", "denied"}, w \in BOOLEAN }

\* A process_conversion that removes the output file when save failed.
UnlinkAfterFailedSave(f) == NoFile

\* The output file after the except clause of process_conversion (lines
\* 71-72), which raises and does nothing else.
AfterFailedSave(f) == f

InitSave ==
    /\ pc = "save"
    /\ \E f \in Formats :
          args = [input_file |-> "in.yaml", output_file |-> "o/out", format |-> f]
    /\ loaded \in SaveTrees
    /\ fs \in OutputStates
    /\ file \in {NoFile, OldFile}
    /\ file = OldFile => fs.parent = "present"
    /\ tree = NoValue
    /\ fmt = "yaml"
    /\ elem = NoElement
    /\ err = NoErr
    /\ calls = <<Call("yaml", "load")>>
    /\ exitCode = -1
    /\ valid = NoValue
    /\ stderr = <<>>

\* save, first statement: file_path.parent.mkdir(parents=True, exist_ok=True)
SaveMkdir ==
    /\ pc = "save"
    /\ calls' = Append(calls, Call(OutputFormat(args), "save"))
    /\ IF fs.parent = "denied"
       THEN /\ err' = Error("PermissionError", "No permission to write file")
            /\ pc' = "raised"
            /\ UNCHANGED fs
       ELSE /\ fs' = [fs EXCEPT !.parent = IF @ = "missing" THEN "created" ELSE @]
            /\ pc' = "open"
            /\ UNCHANGED err
    /\ UNCHANGED <<tree, fmt, file, elem, loaded, args, exitCode>>
    /\ UNCHANGED valid
    /\ UNCHANGED stderr

\* save: open(file_path, 'w'), which creates or truncates the file;
\* XMLParser builds and re-parses its text before that.
SaveOpen ==
    /\ pc = "open"
    /\ IF OutputFormat(args) = "xml" /\ XMLSaveFails(loaded)
       THEN /\ err' = Error("ValueError", "Error writing XML file")
            /\ pc' = "raised"
            /\ UNCHANGED file
       ELSE IF ~fs.writable
       THEN /\ err' = Error("PermissionError", "No permission to write file")
            /\ pc' = "raised"
            /\ UNCHANGED file
       ELSE /\ file' = File(OutputFormat(args), <<>>)
            /\ pc' = "dump"
            /\ UNCHANGED err
    /\ UNCHANGED <<tree, fmt, elem, loaded, cli>>
    /\ UNCHANGED valid
    /\ UNCHANGED stderr

\* save: json.dump / yaml.dump / file.write inside the with block; what was
\* written is flushed when the block is left, by return or by exception.
SaveWrite ==
    /\ pc = "dump"
    /\ IF OutputFormat(args) = "json"
       THEN /\ file' = File("json", JsonWrite(loaded).toks)
            /\ IF JsonWrite(loaded).ok
               THEN /\ pc' = "saved"
                    /\ UNCHANGED err
               ELSE /\ err' = Error("ValueError", "Data is not JSON serializable")
                    /\ pc' = "raised"
       ELSE /\ file' = File(OutputFormat(args), ParserSave(OutputFormat(args), loaded))
            /\ pc' = "saved"
            /\ UNCHANGED err
    /\ UNCHANGED <<tree, fmt, elem, loaded, cli>>
    /\ UNCHANGED valid
    /\ UNCHANGED stderr

\* process_conversion, lines 71-72
RaiseConversionError ==
    /\ pc = "raised"
    /\ err' = ConversionError(err)
    /\ file' = AfterFailedSave(file)
    /\ pc' = "except"
    /\ UNCHANGED <<tree, fmt, elem, loaded, cli>>
    /\ UNCHANGED valid
    /\ UNCHANGED stderr

\* process_conversion returns after save returned.
SaveReturns ==
    /\ pc = "saved"
    /\ pc' = "done"
    /\ UNCHANGED <<tree, fmt, file, elem, loaded, err, cli>>
    /\ UNCHANGED valid
    /\ UNCHANGED stderr

NextSave == SaveMkdir \/ SaveOpen \/ SaveWrite \/ RaiseConversionError \/ SaveReturns

SpecSave == InitSave /\ [][NextSave]_vars

(***************************************************************************)
(* Relations between trees used by the properties.                         *)
(***************************************************************************)
\* a and b hold the same scalars, the same list items in the same order and,
\* in every dict, the same keys with the same values: Python's a == b made
\* exact on the types of scalars.  The order of a dict's keys is not compared.
RECURSIVE SameTree(_, _)
SameTree(a, b) ==
    IF a.k # b.k THEN FALSE
    ELSE IF IsDict(a)
    THEN /\ Len(a.ents) = Len(b.ents)
         /\ \A i \in 1..Len(a.ents) :
               /\ HasKey(b.ents, a.ents[i].key)
               /\ SameTree(a.ents[i].val, Get(b.ents, a.ents[i].key))
    ELSE IF IsList(a)
    THEN /\ Len(a.items) = Len(b.items)
         /\ \A i \in 1..Len(a.items) : SameTree(a.items[i], b.items[i])
    ELSE a = b

\* Every dict of v has its keys in ascending lexicographic order.
RECURSIVE KeysAscending(_)
KeysAscending(v) ==
    IF IsDict(v)
    THEN /\ \A i \in 1..(Len(v.ents) - 1) : StrLess(v.ents[i].key, v.ents[i + 1].key)
         /\ \A i \in 1..Len(v.ents) : KeysAscending(v.ents[i].val)
    ELSE IF IsList(v) THEN \A i \in 1..Len(v.items) : KeysAscending(v.items[i])
    ELSE TRUE

Reverse(seq) == [i \in 1..Len(seq) |-> seq[Len(seq) + 1 - i]]

\* v with the keys of every dict inserted in the opposite order.
RECURSIVE ReverseKeys(_)
ReverseKeys(v) ==
    IF IsDict(v)
    THEN DictV(Reverse([i \in 1..Len(v.ents) |->
                            Ent(v.ents[i].key, ReverseKeys(v.ents[i].val))]))
    ELSE IF IsList(v) THEN ListV([i \in 1..Len(v.items) |-> ReverseKeys(v.items[i])])
    ELSE v

\* v with the keys of its root dict inserted in the opposite order.
ReverseRootKeys(v) == IF IsDict(v) THEN DictV(Reverse(v.ents)) ELSE v

TextFormats == {"json", "yaml"}

(***************************************************************************)
(* C1 as stated: for the JSON and the YAML adapter, load(save(T))          *)
(* reproduces every tree T exactly.                                        *)
(***************************************************************************)
C1_RoundTripExact ==
    (pc = "loaded" /\ fmt \in TextFormats) => loaded = tree

(***************************************************************************)
(* C1 amended: for the JSON and the YAML adapter and every tree T whose    *)
(* root is a mapping, load(save(T)) holds the same keys and values as T at *)
(* every level, with sequences in the same order and scalars of the same   *)
(* type; the keys of every mapping come back in lexicographic order, so    *)
(* the result is T itself exactly when T's keys were inserted in that      *)
(* order.                                                                  *)
(***************************************************************************)
C1_RoundTrip ==
    (pc = "loaded" /\ fmt \in TextFormats /\ IsDict(tree)) =>
        /\ SameTree(loaded, tree)
        /\ KeysAscending(loaded)
        /\ (KeysAscending(tree) <=> loaded = tree)

C1_Witness ==
    /\ pc = "loaded" /\ fmt = "yaml" /\ IsDict(tree)
    /\ Len(tree.ents) = 2
    /\ IsDict(tree.ents[1].val) /\ Len(tree.ents[1].val.ents) = 2
    /\ tree.ents[1].val.ents[1].val = StrV("5")
    /\ loaded # tree

(***************************************************************************)
(* C2: every load returns a mapping at the root.  For JSON and YAML a      *)
(* decoded value that is not a mapping is returned as {"data": V} and a    *)
(* decoded mapping is returned as it is, so that saving a non-mapping V    *)
(* and loading it gives {"data": V}.                                       *)
(***************************************************************************)
Decoded == IF fmt = "json" THEN JsonParse(file.text) ELSE YamlParse(file.text)

C2_RootIsMapping ==
    (pc = "loaded") =>
        /\ IsDict(loaded)
        /\ (fmt \in TextFormats) =>
              /\ IsDict(Decoded) => loaded = Decoded
              /\ ~IsDict(Decoded) =>
                    /\ Len(loaded.ents) = 1
                    /\ loaded.ents[1].key = "data"
                    /\ loaded.ents[1].val = Decoded
              /\ ~IsDict(tree) =>
                    /\ Len(loaded.ents) = 1
                    /\ loaded.ents[1].key = "data"
                    /\ SameTree(loaded.ents[1].val, tree)
              /\ IsDict(tree) => SameTree(loaded, tree)

C2_Witness ==
    /\ pc = "loaded" /\ fmt = "json"
    /\ IsList(tree) /\ Len(tree.items) = 3
    /\ loaded = DictV(<<Ent("data", tree)>>)

(***************************************************************************)
(* C7: for the JSON and the YAML adapter, the text saved from a mapping    *)
(* does not depend on the order in which its keys, or the keys of the      *)
(* mappings inside it, were inserted, and its keys are written in          *)
(* lexicographic order.                                                    *)
(***************************************************************************)
SavedAs(f, data) == IF f = "json" THEN JSONSave(data) ELSE YAMLSave(data)

C7_KeySortDeterminism ==
    (pc = "saved" /\ fmt \in TextFormats) =>
        /\ SavedAs(fmt, ReverseKeys(tree)) = file.text
        /\ SavedAs(fmt, ReverseRootKeys(tree)) = file.text
        /\ KeysAscending(Decoded)

C7_Witness ==
    /\ pc = "saved" /\ fmt = "json"
    /\ IsDict(tree) /\ Len(tree.ents) = 2
    /\ StrLess(tree.ents[2].key, tree.ents[1].key)
    /\ IsDict(tree.ents[1].val) /\ Len(tree.ents[1].val.ents) = 2
    /\ StrLess(tree.ents[1].val.ents[2].key, tree.ents[1].val.ents[1].key)
    /\ ReverseRootKeys(tree) # ReverseKeys(tree)

(***************************************************************************)
(* Shapes of trees used by the XML properties.                             *)
(***************************************************************************)
IsAttrKey(key) == StartsWith(key, "@")
IsTextKey(key) == key = "#text"
IsChildKey(key) == ~IsAttrKey(key) /\ ~IsTextKey(key)

\* A str that is not empty and has no white space around it.
TrimmedStr(v) == v.k = "str" /\ v.s # "" /\ Strip(v.s) = v.s

\* The trees of C3 as stated: mappings, strings, and sequences that are the
\* value of a mapping key and hold mappings or strings; none of them empty.
RECURSIVE SimpleTree(_)
SimpleTree(v) ==
    IF IsDict(v)
    THEN /\ v.ents # <<>>
         /\ \A i \in 1..Len(v.ents) :
            LET e == v.ents[i]
            IN  IF IsList(e.val)
                THEN /\ IsChildKey(e.key)
                     /\ e.val.items # <<>>
                     /\ \A j \in 1..Len(e.val.items) :
                           ~IsList(e.val.items[j]) /\ SimpleTree(e.val.items[j])
                ELSE IF IsChildKey(e.key) THEN SimpleTree(e.val)
                ELSE TrimmedStr(e.val)
    ELSE TrimmedStr(v)

\* The simple trees that _element_to_dict can return: in addition no mapping
\* is empty, none is a single child key with a value that is no sequence,
\* "#text" is never the only key, and every sequence has two items or more.
RECURSIVE CanonicalTree(_)
CanonicalTree(v) ==
    IF IsDict(v)
    THEN /\ v.ents # <<>>
         /\ ~(Len(v.ents) = 1 /\ IsChildKey(v.ents[1].key) /\ ~IsList(v.ents[1].val))
         /\ ~(Len(v.ents) = 1 /\ IsTextKey(v.ents[1].key))
         /\ \A i \in 1..Len(v.ents) :
               LET e == v.ents[i]
               IN  IF IsAttrKey(e.key) THEN e.val.k = "str"
                   ELSE IF IsTextKey(e.key) THEN TrimmedStr(e.val)
                   ELSE IF IsList(e.val)
                   THEN /\ Len(e.val.items) >= 2
                        /\ \A j \in 1..Len(e.val.items) :
                              ~IsList(e.val.items[j]) /\ CanonicalTree(e.val.items[j])
                   ELSE CanonicalTree(e.val)
    ELSE TrimmedStr(v)

KeyRank(key) == IF IsAttrKey(key) THEN 0 ELSE IF IsTextKey(key) THEN 1 ELSE 2

\* Every dict of v has its "@" keys first, "#text" next and its child keys last.
RECURSIVE AttrsFirst(_)
AttrsFirst(v) ==
    IF IsDict(v)
    THEN /\ \A i \in 1..(Len(v.ents) - 1) :
               KeyRank(v.ents[i].key) <= KeyRank(v.ents[i + 1].key)
         /\ \A i \in 1..Len(v.ents) : AttrsFirst(v.ents[i].val)
    ELSE IF IsList(v) THEN \A i \in 1..Len(v.items) : AttrsFirst(v.items[i])
    ELSE TRUE

(***************************************************************************)
(* C3 as stated: for every tag and every simple tree T (mappings, strings, *)
(* sequences under a mapping key), elementToNode(nodeToElement(tag, T))    *)
(* is T.  The order of keys is not held against the claim, and neither    *)
(* are empty mappings and sequences.                                       *)
(***************************************************************************)
C3_XmlRoundTripSimple ==
    (pc = "node" /\ SimpleTree(tree)) => SameTree(loaded, tree)

(***************************************************************************)
(* C3 amended: for every tag and every simple tree T in which no mapping   *)
(* is empty, no mapping is a single child key whose value is not a         *)
(* sequence, "#text" is never the only key of a mapping, every sequence    *)
(* has at least two items and every string other than an attribute value  *)
(* is non-empty without surrounding white space,                          *)
(* elementToNode(nodeToElement(tag, T)) holds the same keys and values as  *)
(* T, and is T itself exactly when every mapping of T has its "@" keys     *)
(* first, "#text" next and its child keys last.                            *)
(***************************************************************************)
C3_XmlRoundTripCanonical ==
    (pc = "node" /\ CanonicalTree(tree)) =>
        /\ SameTree(loaded, tree)
        /\ (AttrsFirst(tree) <=> loaded = tree)

C3_Witness ==
    /\ pc = "node" /\ CanonicalTree(tree) /\ IsDict(tree)
    /\ Len(tree.ents) = 2
    /\ tree.ents[2].key = "@i"
    /\ IsList(tree.ents[1].val) /\ Len(tree.ents[1].val.items) = 3
    /\ loaded # tree

\* A nested mapping with an attribute and text comes back as it is.
C3_WitnessNested ==
    /\ pc = "node" /\ CanonicalTree(tree) /\ IsDict(tree)
    /\ Len(tree.ents) = 2
    /\ IsDict(tree.ents[1].val)
    /\ loaded = tree

(***************************************************************************)
(* C8 as stated: a sequence held in a tree that is saved and loaded        *)
(* through JSON, YAML or XML comes back as a sequence of the same items in *)
(* the same order.  Only the places and lengths of the sequences of two    *)
(* items or more are compared here.                                        *)
(***************************************************************************)
RECURSIVE SequencesKept(_, _)
SequencesKept(a, b) ==
    IF IsList(a) /\ Len(a.items) >= 2
    THEN /\ IsList(b)
         /\ Len(b.items) = Len(a.items)
         /\ \A i \in 1..Len(a.items) : SequencesKept(a.items[i], b.items[i])
    ELSE IF IsDict(a) /\ IsDict(b)
    THEN \A i \in 1..Len(a.ents) :
            HasKey(b.ents, a.ents[i].key) =>
                SequencesKept(a.ents[i].val, Get(b.ents, a.ents[i].key))
    ELSE TRUE

\* What load returned for tree itself: below the "data" or "root" key that
\* load or save added around it.
LoadedTree ==
    IF fmt \in TextFormats
    THEN IF IsDict(tree) THEN loaded ELSE loaded.ents[1].val
    ELSE IF IsDict(tree) /\ Len(tree.ents) = 1 THEN loaded ELSE loaded.ents[1].val

ItemBack(key, item) == ElementToDict(XmlParse(XmlWrite(DictToElement(key, item))))

RECURSIVE Descendants(_)
Descendants(element) ==
    {element} \cup UNION {Descendants(element.children[i]) :
                              i \in 1..Len(element.children)}

\* The node of an element of the loaded document: for the root, what load
\* returned under the root's tag.
NodeOf(element) ==
    IF element = elem THEN loaded.ents[1].val ELSE ElementToDict(element)

\* The distinct tags of elements, each at its first occurrence.
RECURSIVE FirstOccurrences(_, _)
FirstOccurrences(elements, seen) ==
    IF elements = <<>> THEN seen
    ELSE FirstOccurrences(Tail(elements),
            IF \E i \in 1..Len(seen) : seen[i] = elements[1].tag THEN seen
            ELSE Append(seen, elements[1].tag))

WithTag(elements, tag) == SelectSeq(elements, LAMBDA c : c.tag = tag)

ChildKeysOf(node) ==
    LET es == SelectSeq(node.ents, LAMBDA e : IsChildKey(e.key))
    IN  [i \in 1..Len(es) |-> es[i].key]

Blank(element) == Strip(element.text) = ""

\* Every "@" key and "#text" of a is a key of b with the same value, b has
\* no other such key, and so on below every key and item of a.
RECURSIVE Preserved(_, _)
Preserved(a, b) ==
    IF IsDict(a)
    THEN /\ IsDict(b)
         /\ \A i \in 1..Len(b.ents) :
               ~IsChildKey(b.ents[i].key) => HasKey(a.ents, b.ents[i].key)
         /\ \A i \in 1..Len(a.ents) :
               LET e == a.ents[i]
               IN  /\ HasKey(b.ents, e.key)
                   /\ IF IsChildKey(e.key) THEN Preserved(e.val, Get(b.ents, e.key))
                      ELSE Get(b.ents, e.key) = e.val
    ELSE IF IsList(a)
    THEN /\ IsList(b)
         /\ Len(b.items) = Len(a.items)
         /\ \A i \in 1..Len(a.items) : Preserved(a.items[i], b.items[i])
    ELSE TRUE

\* Whether v holds an "@" key or "#text" somewhere.
RECURSIVE HasReserved(_)
HasReserved(v) ==
    IF IsDict(v)
    THEN \E i \in 1..Len(v.ents) :
            ~IsChildKey(v.ents[i].key) \/ HasReserved(v.ents[i].val)
    ELSE IF IsList(v) THEN \E i \in 1..Len(v.items) : HasReserved(v.items[i])
    ELSE FALSE

(***************************************************************************)
(* C4: an element with no attributes, no text other than white space and   *)
(* exactly one child element has the node of that child as its node, not a *)
(* mapping of one entry; an element with attributes, with text beside      *)
(* child elements, or with two child elements or more has a mapping as its *)
(* node: one entry per attribute, one for the text and one per distinct    *)
(* tag of its children.                                                    *)
(***************************************************************************)
C4_CollapseRule ==
    (pc = "read") =>
        \A e \in Descendants(elem) :
            LET node == NodeOf(e)
            IN  /\ (e.attrib = <<>> /\ Blank(e) /\ Len(e.children) = 1) =>
                        node = ElementToDict(e.children[1])
                /\ (e.attrib # <<>> \/ (~Blank(e) /\ e.children # <<>>)
                        \/ Len(e.children) >= 2) =>
                        /\ IsDict(node)
                        /\ Len(node.ents) =
                              Len(e.attrib) + (IF Blank(e) THEN 0 ELSE 1)
                                + Len(FirstOccurrences(e.children, <<>>))

\* <a><b>5</b></a> loads to {"a": "5"}.
C4_Witness ==
    /\ pc = "read"
    /\ elem = Elem("a", <<>>, "", <<Elem("b", <<>>, "5", <<>>)>>)
    /\ loaded = DictV(<<Ent("a", StrV("5"))>>)

(***************************************************************************)
(* C5: the node of an element with two or more children of one tag is a    *)
(* mapping in which every tag borne by n >= 2 children is one key whose    *)
(* value is the sequence of the n nodes of those children in document      *)
(* order, none of them a sequence; a tag borne by one child is a key whose *)
(* value is the node of that child; and the keys that are tags stand in    *)
(* the order in which the tags first occur.                                *)
(***************************************************************************)
C5_RepeatedTags ==
    (pc = "read") =>
        \A e \in Descendants(elem) :
            LET node == NodeOf(e)
                tags == FirstOccurrences(e.children, <<>>)
            IN  (Len(tags) < Len(e.children)) =>
                    /\ IsDict(node)
                    /\ ChildKeysOf(node) = tags
                    /\ \A k \in 1..Len(tags) :
                          LET same == WithTag(e.children, tags[k])
                              value == Get(node.ents, tags[k])
                          IN  IF Len(same) >= 2
                              THEN /\ IsList(value)
                                   /\ Len(value.items) = Len(same)
                                   /\ \A j \in 1..Len(same) :
                                         /\ value.items[j] = ElementToDict(same[j])
                                         /\ ~IsList(value.items[j])
                              ELSE value = ElementToDict(same[1])

\* <a><b>1</b><a/><b>3</b></a>, and three children of one tag below a child.
C5_Witness ==
    /\ pc = "read"
    /\ Len(elem.children) = 3
    /\ elem.children[1].tag = "b" /\ elem.children[2].tag = "a"
    /\ Len(WithTag(elem.children[2].children, "a")) = 3
    /\ IsDict(loaded.ents[1].val)
    /\ ChildKeysOf(loaded.ents[1].val) = <<"b", "a">>
    /\ Get(loaded.ents[1].val.ents, "b") = ListV(<<StrV("1"), StrV("3")>>)
    /\ IsDict(Get(loaded.ents[1].val.ents, "a"))
    /\ IsList(Get(Get(loaded.ents[1].val.ents, "a").ents, "a"))

C9_UnknownExtension ==
    (DetectInputFormat(args.input_file) = "unknown") =>
        /\ calls = <<>>
        /\ file = NoFile
        /\ pc \in {"main", "convert", "except", "exited"}
        /\ (fmt # "none") =>
              /\ fmt = "unknown"
              /\ err = Error("ValueError", "Unsupported input file format")
        /\ (pc = "exited") => exitCode = 1

\* file.txt, a readable file: the conversion is refused and the status is 1.
C9_Witness ==
    /\ pc = "exited" /\ exitCode = 1
    /\ args.input_file = "file.txt"
    /\ fs.input = "file" /\ fs.doc # NoValue /\ fs.outdir = "ok"
    /\ err = Error("ValueError", "Unsupported input file format")
    /\ calls = <<>> /\ file = NoFile

(***************************************************************************)
(* C10: detect_input_format gives, for every path and whatever the file    *)
(* system holds at that path, the format of the path's extension compared  *)
(* without regard to case: json for .json, yaml for .yaml and .yml, xml    *)
(* for .xml, and unknown for every other extension and for none.           *)
(***************************************************************************)
ExpectedFormat(ext) ==
    IF ext \in {".json", ".JSON", ".Json"} THEN "json"
    ELSE IF ext \in {".yaml", ".YAML", ".yml", ".Yml"} THEN "yaml"
    ELSE IF ext \in {".xml", ".XML", ".xmL"} THEN "xml"
    ELSE "unknown"

C10_DetectFormat ==
    (pc = "detected") =>
        \A p \in InputPaths :
            (p.path = args.input_file) => fmt = ExpectedFormat(p.ext)

\* An absent d.xml/file.YAML is YAML.
C10_Witness ==
    /\ pc = "detected"
    /\ args.input_file = "d.xml/file.YAML"
    /\ fs.input = "absent"
    /\ fmt = "yaml"

(***************************************************************************)
(* C11: for each parser and every path, validate returns True when load of *)
(* the same path returned a value and False when load raised (the path is  *)
(* absent, the text malformed, reading denied, or anything else); no       *)
(* exception leaves validate.                                              *)
(***************************************************************************)
C11_ValidateMirrorsLoad ==
    /\ pc # "escaped"
    /\ (pc = "validated") =>
          /\ valid \in {BoolV(TRUE), BoolV(FALSE)}
          /\ (valid = BoolV(TRUE)) <=> (err = NoErr /\ loaded # NoValue)
          /\ (valid = BoolV(FALSE)) <=> (err # NoErr /\ loaded = NoValue)

\* A malformed XML file: load raised "Invalid XML format", validate is False.
C11_Witness ==
    /\ pc = "validated" /\ fmt = "xml"
    /\ fs.input = "file" /\ fs.readable /\ ~fs.wellformed
    /\ err = Error("ValueError", "Invalid XML format")
    /\ valid = BoolV(FALSE)

RootTag(data) ==
    IF IsDict(data) /\ Len(data.ents) = 1 THEN data.ents[1].key ELSE "root"

RootContent(data) ==
    IF IsDict(data)
    THEN IF Len(data.ents) = 1 THEN data.ents[1].val ELSE data
    ELSE DictV(<<Ent("data", data)>>)

C13_XmlRootSelection ==
    (fmt = "xml" /\ pc \in {"saved", "loaded"}) =>
        /\ file.text[1].t = "open" /\ file.text[1].s = RootTag(tree)
        /\ file.text = XmlWrite(DictToElement(RootTag(tree), RootContent(tree)))
        /\ (pc = "loaded") =>
              /\ IsDict(loaded) /\ Len(loaded.ents) = 1
              /\ loaded.ents[1].key = RootTag(tree)
              /\ loaded.ents[1].val
                    = ElementToDict(XmlParse(XmlWrite(
                          DictToElement(RootTag(tree), RootContent(tree)))))

\* A mapping with the one key "a" saved and loaded: the root is "a".
C13_Witness ==
    /\ pc = "loaded" /\ fmt = "xml"
    /\ IsDict(tree) /\ Len(tree.ents) = 1 /\ tree.ents[1].key = "a"
    /\ IsDict(tree.ents[1].val) /\ Len(tree.ents[1].val.ents) = 2
    /\ loaded.ents[1].key = "a" /\ IsDict(loaded.ents[1].val)

\* save("x") then load gives {"root": "x"}.
C13_WitnessScalar ==
    /\ pc = "loaded" /\ fmt = "xml"
    /\ tree = StrV("x")
    /\ loaded = DictV(<<Ent("root", StrV("x"))>>)

\* save({}) then load has the key "root".
C13_WitnessEmpty ==
    /\ pc = "loaded" /\ fmt = "xml"
    /\ tree = DictV(<<>>)
    /\ loaded = DictV(<<Ent("root", NoneV)>>)

(***************************************************************************)
(* C14: _dict_to_element writes a scalar that is a boolean, a number or a  *)
(* string (as the content of the element, as the value of a child key, of  *)
(* "#text" or of an "@" key) as its format-neutral string: "true" or       *)
(* "false" for a boolean, the decimal numeral for a number, the string     *)
(* itself for a string.                                                    *)
(***************************************************************************)
NeutralString(v) ==
    CASE v.k = "bool" -> IF v.b THEN "true" ELSE "false"
      [] v.k = "int" -> IntToStr(v.n)
      [] v.k = "str" -> v.s

IsStringified(v) == v.k \in {"bool", "int", "str"}

C14_ScalarStringification ==
    (pc = "elem") =>
        /\ IsStringified(tree) => elem.text = NeutralString(tree)
        /\ IsDict(tree) =>
              \A i \in 1..Len(tree.ents) :
                  LET e == tree.ents[i]
                  IN  IsStringified(e.val) =>
                        IF IsAttrKey(e.key)
                        THEN Get(elem.attrib, SubSeq(e.key, 2, Len(e.key)))
                                = NeutralString(e.val)
                        ELSE IF IsTextKey(e.key)
                        THEN elem.text = NeutralString(e.val)
                        ELSE \E j \in 1..Len(elem.children) :
                                /\ elem.children[j].tag = e.key
                                /\ elem.children[j].text = NeutralString(e.val)

\* True as the content of an element is written "True".
C14_Witness ==
    /\ pc = "elem"
    /\ tree = BoolV(TRUE)
    /\ elem.text = "True"

\* ---------------------------------------------------------------------------
\* C15
\* ---------------------------------------------------------------------------

\* The exceptions the driver reports (main.py line 91), which carry every
\* error kind of the converter.
Reported == {"FileNotFoundError", "ValueError", "PermissionError"}

\* C15: a run of the command line that exits after validation, load and
\* save all succeeded exits with status 0 and a silent error stream; once an
\* error is reported nothing is left but to exit, with status 1 and one
\* "Error: ..." line on the error stream; no reported error ends with
\* status 0.
C15_ExitCodes ==
    /\ err # NoErr =>
          /\ err.type \in Reported
          /\ pc \in {"except", "exited"}
          /\ file = NoFile
    /\ pc = "exited" =>
          /\ exitCode \in {0, 1}
          /\ err = NoErr =>
                /\ exitCode = 0
                /\ stderr = <<>>
                /\ loaded # NoValue
                /\ file # NoFile
          /\ err # NoErr =>
                /\ exitCode = 1
                /\ stderr = <<"Error: " \o err.msg>>

\* A run that failed while saving: it loaded its input, wrote no file and
\* exited with status 1 and a message.
C15_Witness ==
    /\ pc = "exited"
    /\ exitCode = 1
    /\ Len(calls) = 2
    /\ Len(stderr) = 1
    /\ file = NoFile

\* A run that converted its input and exited with status 0.
C15_WitnessSuccess ==
    /\ pc = "exited"
    /\ exitCode = 0
    /\ file # NoFile
    /\ stderr = <<>>

\* ---------------------------------------------------------------------------
\* C16
\* ---------------------------------------------------------------------------

\* The calls a conversion may have made so far: none, one load, or one load
\* followed by one save; load on the parser of the input file's extension,
\* save on the parser the --format flag names.
LoadCall == Call(DetectInputFormat(args.input_file), "load")
SaveCall == Call(args.format, "save")

\* C16: in every conversion the parser that loads is the one of the input
\* file's extension and the parser that saves is the one of --format, whatever
\* the extension of the output path; there is one load, then at most one
\* save, and a save only after the load returned a tree; a finished
\* conversion made exactly the two calls and wrote the file in the syntax of
\* --format.
C16_ParserSelection ==
    /\ pc \in {"main", "convert", "load"} => calls = <<>>
    /\ Len(calls) <= 2
    /\ calls # <<>> =>
          /\ calls[1] = LoadCall
          /\ calls[1].parser \in Formats
    /\ Len(calls) = 2 =>
          /\ calls[2] = SaveCall
          /\ loaded # NoValue
    /\ pc = "save" => Len(calls) = 1 /\ loaded # NoValue
    /\ pc \in {"done", "exited"} /\ err = NoErr =>
          /\ Len(calls) = 2
          /\ file.kind = args.format

\* A finished conversion whose output path carries the extension of another
\* format than --format names.
C16_Witness ==
    /\ pc = "done"
    /\ args.output_file = "out.json"
    /\ args.format = "xml"
    /\ calls = <<Call("yaml", "load"), Call("xml", "save")>>
    /\ file.kind = "xml"

\* A conversion whose load failed: it made the one call.
C16_WitnessFailedLoad ==
    /\ pc = "exited"
    /\ calls = <<LoadCall>>
    /\ loaded = NoValue
    /\ err.type = "ValueError"

\* ---------------------------------------------------------------------------
\* C17
\* ---------------------------------------------------------------------------

IsLeaf(element) == element.attrib = <<>> /\ element.children = <<>>

\* C17: of every element of a loaded document that has no attributes and no
\* child elements the node is the string of its text without the white space
\* around it when the text is more than white space, and None when there is
\* no text or only white space; the node of no element is an empty mapping.
C17_LeafElements ==
    (pc = "read") =>
        \A e \in Descendants(elem) :
            LET node == NodeOf(e)
            IN  /\ IsLeaf(e) /\ ~Blank(e) => node = StrV(Strip(e.text))
                /\ IsLeaf(e) /\ Blank(e) => node = NoneV
                /\ node # DictV(<<>>)

\* <a><a> x </a><b>2</b></a> loads to {"a": {"a": "x", "b": "2"}}.
C17_Witness ==
    /\ pc = "read"
    /\ elem = Elem("a", <<>>, "", <<Elem("a", <<>>, " x ", <<>>),
                                   Elem("b", <<>>, "2", <<>>)>>)
    /\ loaded = DictV(<<Ent("a", DictV(<<Ent("a", StrV("x")),
                                         Ent("b", StrV("2"))>>))>>)

\* The document <a> x </a> loads to {"a": "x"}.
C17_WitnessRoot ==
    /\ pc = "read"
    /\ elem = Elem("a", <<>>, " x ", <<>>)
    /\ loaded = DictV(<<Ent("a", StrV("x"))>>)

\* The document <a> </a> loads to {"a": None}.
C17_WitnessBlank ==
    /\ pc = "read"
    /\ elem = Elem("a", <<>>, " ", <<>>)
    /\ loaded = DictV(<<Ent("a", NoneV)>>)

\* ---------------------------------------------------------------------------
\* C18
\* ---------------------------------------------------------------------------

\* The keys of entries that begin with "@", in the order of the entries.
AttrKeysOf(node) ==
    LET es == SelectSeq(node.ents, LAMBDA e : IsAttrKey(e.key))
    IN  [i \in 1..Len(es) |-> es[i].key]

\* The place of key among the keys of node.
PlaceOf(node, key) == CHOOSE i \in 1..Len(node.ents) : node.ents[i].key = key

\* The values a child key stands for: the items of a list, else the value.
ItemsUnder(value) == IF IsList(value) THEN value.items ELSE <<value>>

\* C18: the element made of a mapping has one attribute per key that begins
\* with "@", named by the rest of the key, in the order of those keys; the
\* value of the key "#text" as its text, and no text without that key; under
\* every other key as many children tagged with the key as the key's list has
\* items, or one child when its value is no list, each the element of its
\* item; no other children; and the children stand in the order in which
\* their keys were inserted, not in the order of the keys' names.
C18_MappingToElement ==
    (pc = "elem" /\ IsDict(tree)) =>
        /\ Len(elem.attrib) = Len(AttrKeysOf(tree))
        /\ \A i \in 1..Len(elem.attrib) :
              LET key == AttrKeysOf(tree)[i]
              IN  /\ elem.attrib[i].key = SubSeq(key, 2, Len(key))
                  /\ elem.attrib[i].val = PyStr(Get(tree.ents, key))
        /\ elem.text = IF HasKey(tree.ents, "#text")
                       THEN PyStr(Get(tree.ents, "#text")) ELSE ""
        /\ \A i \in 1..Len(tree.ents) :
              LET e == tree.ents[i]
                  made == WithTag(elem.children, e.key)
              IN  IsChildKey(e.key) =>
                     /\ Len(made) = Len(ItemsUnder(e.val))
                     /\ \A j \in 1..Len(made) :
                           made[j] = DictToElement(e.key, ItemsUnder(e.val)[j])
        /\ \A j \in 1..Len(elem.children) :
              /\ HasKey(tree.ents, elem.children[j].tag)
              /\ IsChildKey(elem.children[j].tag)
        /\ \A j, k \in 1..Len(elem.children) :
              j < k => PlaceOf(tree, elem.children[j].tag)
                          <= PlaceOf(tree, elem.children[k].tag)

\* {"b": ["x", "5"], "a": "y"} becomes <t><b>x</b><b>5</b><a>y</a></t>: the
\* children of "b" stand before the child of "a".
C18_Witness ==
    /\ pc = "elem"
    /\ IsDict(tree)
    /\ Len(tree.ents) = 2
    /\ tree.ents[1].key = "b" /\ IsList(tree.ents[1].val)
    /\ Len(tree.ents[1].val.items) = 2
    /\ tree.ents[2].key = "a"
    /\ Len(elem.children) = 3
    /\ elem.children[1].tag = "b"
    /\ elem.children[2].tag = "b"
    /\ elem.children[3].tag = "a"

\* {"@i": 30, "#text": "y"} becomes <t i="30">y</t>.
C18_WitnessAttribute ==
    /\ pc = "elem"
    /\ tree = DictV(<<Ent("@i", IntV(30)), Ent("#text", StrV("y"))>>)
    /\ elem = Elem("t", <<Ent("i", "30")>>, "y", <<>>)

\* ---------------------------------------------------------------------------
\* C19
\* ---------------------------------------------------------------------------

\* Whether element is what a sequence s under tag becomes: no attributes, no
\* text, and one child per item, child i (counted from 0) tagged "item"
\* followed by i.
ItemChildren(element, tag, s) ==
    /\ element.tag = tag
    /\ element.attrib = <<>>
    /\ element.text = ""
    /\ Len(element.children) = Len(s.items)
    /\ \A i \in 1..Len(s.items) :
          element.children[i].tag = "item" \o IntToStr(i - 1)

\* Whether child is the element of item under its tag, as far as scalars and
\* mappings go: a scalar is the child's text, a mapping gives as many
\* children and attributes as it has entries of each kind.
HoldsItem(child, item) ==
    IF IsScalar(item) THEN child.text = PyStr(item) /\ child.children = <<>>
    ELSE IF IsDict(item)
    THEN /\ Len(child.attrib) = Len(AttrKeysOf(item))
         /\ \A k \in 1..Len(item.ents) :
               IsChildKey(item.ents[k].key) =>
                  Len(WithTag(child.children, item.ents[k].key))
                     = Len(ItemsUnder(item.ents[k].val))
    ELSE ItemChildren(child, child.tag, item)

\* C19: the element made of a sequence that is converted under a tag of its
\* own (the tree itself, or an item of such a sequence) has exactly as many
\* children as the sequence has items, the children tagged item0, item1, ...
\* in the order of the items, each holding its item; the same when the
\* sequence is the value of the only key of a saved mapping, under the key as
\* root tag.
C19_BareSequence ==
    /\ (pc = "elem" /\ IsList(tree)) =>
          /\ elem.tag \in Tags
          /\ ItemChildren(elem, elem.tag, tree)
          /\ \A i \in 1..Len(tree.items) :
                /\ HoldsItem(elem.children[i], tree.items[i])
                /\ elem.children[i] = DictToElement(elem.children[i].tag, tree.items[i])
    /\ (pc = "saved" /\ fmt = "xml" /\ IsDict(tree) /\ Len(tree.ents) = 1
            /\ IsList(tree.ents[1].val)) =>
          LET root == XmlParse(file.text)
              s == tree.ents[1].val
          IN  /\ root.tag = tree.ents[1].key
              /\ Len(root.children) = Len(s.items)
              /\ \A i \in 1..Len(s.items) :
                    root.children[i].tag = "item" \o IntToStr(i - 1)

\* [[x, y], y, y] becomes <t><item0><item0>x</item0><item1>y</item1></item0>
\* <item1>y</item1><item2>y</item2></t>.
C19_Witness ==
    /\ pc = "elem"
    /\ tree = ListV(<<ListV(<<StrV("x"), StrV("y")>>), StrV("y"), StrV("y")>>)
    /\ Len(elem.children) = 3
    /\ elem.children[3] = Elem("item2", <<>>, "y", <<>>)
    /\ elem.children[1]
          = Elem("item0", <<>>, "", <<Elem("item0", <<>>, "x", <<>>),
                                      Elem("item1", <<>>, "y", <<>>)>>)

\* {"a": ["x", "y"]} is saved as <a><item0>x</item0><item1>y</item1></a>.
C19_WitnessSaved ==
    /\ pc = "saved" /\ fmt = "xml"
    /\ tree = DictV(<<Ent("a", ListV(<<StrV("x"), StrV("y")>>))>>)
    /\ XmlParse(file.text).tag = "a"
    /\ XmlParse(file.text).children
          = <<Elem("item0", <<>>, "x", <<>>), Elem("item1", <<>>, "y", <<>>)>>

\* ---------------------------------------------------------------------------
\* C20
\* ---------------------------------------------------------------------------

\* The conversion ended with an error after its n-th call of a parser.
FailedAfter(n) ==
    /\ pc \in {"except", "exited"}
    /\ Len(calls) = n
    /\ err # NoErr

\* The kinds of error a parser's load raised and the driver received are the
\* same.
LoadKindKept == FailedAfter(1) => err.type = LoadRaises(fmt).type

\* C20: an error raised by a parser's load or save during a conversion
\* reaches the driver's except clause with the kind it was raised with; in
\* particular a PermissionError of save reaches it as a PermissionError.
C20_TypedPropagation ==
    /\ LoadKindKept
    /\ FailedAfter(2) => err.type = SaveRaises(OutputFormat(args), loaded).type

\* What holds instead for save: its errors reach the driver as ValueError,
\* whatever their kind, with the parser's message inside the driver's.
C20_SaveErrorsWrapped ==
    /\ LoadKindKept
    /\ FailedAfter(2) =>
          /\ SaveRaises(OutputFormat(args), loaded) # NoErr
          /\ err = ConversionError(SaveRaises(OutputFormat(args), loaded))
          /\ err.type = "ValueError"

\* save was denied write access and the driver reports a ValueError.
C20_Witness ==
    /\ pc = "exited"
    /\ Len(calls) = 2
    /\ fs.outdir = "nowrite"
    /\ SaveRaises(OutputFormat(args), loaded).type = "PermissionError"
    /\ err.type = "ValueError"
    /\ exitCode = 1

\* load was denied read access and the driver reports a PermissionError.
C20_WitnessLoad ==
    /\ pc = "exited"
    /\ Len(calls) = 1
    /\ LoadRaises(fmt).type = "PermissionError"
    /\ err.type = "PermissionError"

\* ---------------------------------------------------------------------------
\* C21
\* ---------------------------------------------------------------------------

\* The failed save had opened the output file: the parent directory could be
\* made, the file opened and, for XML, the text built.
OpenedByFailedSave ==
    /\ fs.parent # "denied"
    /\ fs.writable
    /\ ~(args.format = "xml" /\ XMLSaveFails(loaded))

\* The output path as a failed save leaves it: a file that save could not
\* open is as it was, absent or with its old contents; a file that was
\* opened holds what the encoder wrote before it raised; a parent
\* directory that was made is there.
AsFailedSaveLeftIt ==
    /\ err # NoErr
    /\ fs.parent # "missing"
    /\ IF OpenedByFailedSave
       THEN /\ file.kind = args.format
            /\ file \notin {NoFile, OldFile}
            /\ file.text = JsonWrite(loaded).toks
            /\ ~JsonWrite(loaded).ok
       ELSE file \in {NoFile, OldFile}

\* C21: when save fails after a successful load, the conversion raises its
\* error without touching the output path: the step from the parser's
\* exception to the raised ValueError changes neither the output file nor
\* its parent directory, so the path is as the failed save left it; a JSON
\* save that fails while encoding has by then created or truncated the file
\* and left in it what was written before the failure.
C21_NoCleanup ==
    /\ [](pc \in {"raised", "except"} => AsFailedSaveLeftIt)
    /\ [][pc = "raised" => file' = file /\ fs' = fs]_vars

\* {"a": "x", "d": date} saved as JSON over an old file: the file holds
\* {"a": "x", "d": and nothing more.
C21_Witness ==
    /\ pc = "except"
    /\ loaded = DictV(<<Ent("d", Day), Ent("a", StrV("x"))>>)
    /\ file = File("json", <<P("{"), Tok("string", "a"), P(":"), Tok("string", "x"),
                             P(","), Tok("string", "d"), P(":")>>)
    /\ fs.parent = "present"
    /\ err.type = "ValueError"

\* A save that could not open the file, in a parent directory it had made:
\* no file, and the directory stays.
C21_WitnessDirectory ==
    /\ pc = "except"
    /\ fs.parent = "created"
    /\ ~fs.writable
    /\ file = NoFile

\* ---------------------------------------------------------------------------
\* C22
\* ---------------------------------------------------------------------------

\* Whether v has the shape of a node made of an element; underKey tells
\* whether v is the value of a mapping key.
RECURSIVE XmlShaped(_, _)
XmlShaped(v, underKey) ==
    IF IsList(v)
    THEN /\ underKey
         /\ Len(v.items) >= 2
         /\ \A i \in 1..Len(v.items) :
               ~IsList(v.items[i]) /\ XmlShaped(v.items[i], FALSE)
    ELSE IF IsDict(v)
    THEN /\ v.ents # <<>>
         /\ \/ Len(v.ents) >= 2
            \/ IsAttrKey(v.ents[1].key)
            \/ IsList(v.ents[1].val)
         /\ ~(Len(v.ents) = 1 /\ IsTextKey(v.ents[1].key))
         /\ \A i \in 1..Len(v.ents) : XmlShaped(v.ents[i].val, TRUE)
    ELSE TRUE

\* C22: the node of every element of a loaded document is no sequence;
\* every sequence in it is the value of a mapping key, has two items or more
\* and no sequence among them; every mapping in it has entries, and one with
\* a single entry has an "@" key or a sequence as the value, never "#text"
\* alone.
C22_CanonicalShape ==
    (pc = "read") =>
        \A e \in Descendants(elem) :
            /\ ~IsList(NodeOf(e))
            /\ XmlShaped(NodeOf(e), FALSE)

\* <a><a i="y"/><a>2</a></a> loads to {"a": {"a": [{"@i": "y"}, "2"]}}: a
\* mapping whose one entry is a sequence, and one whose one entry is an
\* attribute.
C22_Witness ==
    /\ pc = "read"
    /\ elem = Elem("a", <<>>, "", <<Elem("a", <<Ent("i", "y")>>, "", <<>>),
                                   Elem("a", <<>>, "2", <<>>)>>)
    /\ loaded = DictV(<<Ent("a",
                   DictV(<<Ent("a", ListV(<<DictV(<<Ent("@i", StrV("y"))>>),
                                            StrV("2")>>))>>))>>)

\* ---------------------------------------------------------------------------
\* C23
\* ---------------------------------------------------------------------------

\* Whether v holds None somewhere: the node of an element without
\* attributes, children and text.
RECURSIVE HoldsNone(_)
HoldsNone(v) ==
    IF IsDict(v) THEN \E i \in 1..Len(v.ents) : HoldsNone(v.ents[i].val)
    ELSE IF IsList(v) THEN \E i \in 1..Len(v.items) : HoldsNone(v.items[i])
    ELSE v = NoneV

\* C23: for every well-formed document X, the tree D that load returns for X
\* is saved without error, and loading what was saved returns D again;
\* documents with empty elements included.
C23_XmlStability ==
    /\ pc # "failed"
    /\ (pc = "reread") => loaded = tree

\* What holds instead: documents without empty elements are stable.
C23_StableWithoutEmpty ==
    /\ pc # "failed"
    /\ (pc = "reread" /\ ~HoldsNone(tree)) => loaded = tree

\* <a><a/><b>2</b></a> loads to {"a": {"a": None, "b": "2"}}, which is saved
\* as <a><a>None</a><b>2</b></a> and loads to {"a": {"a": "None", "b": "2"}}.
C23_Witness ==
    /\ pc = "reread"
    /\ elem = Elem("a", <<>>, "", <<Elem("a", <<>>, "", <<>>),
                                   Elem("b", <<>>, "2", <<>>)>>)
    /\ tree = DictV(<<Ent("a", DictV(<<Ent("a", NoneV), Ent("b", StrV("2"))>>))>>)
    /\ loaded = DictV(<<Ent("a", DictV(<<Ent("a", StrV("None")),
                                         Ent("b", StrV("2"))>>))>>)

=============================================================================
